---- MODULE Spec2Model ----
(***************************************************************************)
(* A model of the SWMM comparison pipeline of src/core_web.py:             *)
(* run_compare parses two INP texts (attributes and geometry), reconciles  *)
(* renamed elements by location, compares the sections, filters the        *)
(* changes by tolerance and assembles the output.                          *)
(*                                                                         *)
(* Conventions of the model                                                *)
(*  - A Python float is an exact rational <<n, d>> (d > 0, lowest terms).  *)
(*  - None is <<>> and a present value v is <<v>> (Python Optional).       *)
(*  - A text is a sequence of lines; a line is a record                    *)
(*      [hdr |-> name of the [SECTION] it opens, "" when it opens none,     *)
(*       cmt |-> "" | ";" | ";;"   (how the stripped line starts),          *)
(*       tok |-> the whitespace-separated tokens of the stripped line,      *)
(*       ind |-> the number of blanks before the first token,               *)
(*       trl |-> the number of blanks after the last token]                 *)
(*    Inside a line the tokens are one blank apart.                         *)
(*  - A field value of a parsed row is a Python str.  The model writes a    *)
(*    token read from the file as [s |-> token], a number formatted with    *)
(*    six decimals as [fmt |-> rational], a json.dumps of a point list as   *)
(*    [json |-> points] and a " ".join of several tokens as [words |-> ..]. *)
(*  - A dict is a function; its keys are its DOMAIN.                        *)
(*  - A distance is kept as its square in square feet: every comparison of *)
(*    the code between distances (d < eps, d < best_d, sort by d) is the    *)
(*    same comparison between squares.                                      *)
(***************************************************************************)
EXTENDS Integers, Sequences, FiniteSets, TLC

VARIABLES
    payload1,   \* first argument of run_compare: [type, lines]
    payload2,   \* second argument of run_compare
    pc,         \* position inside run_compare
    pr1,        \* INPParseResult of file 1: [sections, headers, tags]
    pr2,        \* INPParseResult of file 2
    g1,         \* SWMMGeometry of file 1: [nodes, links, subpolys]
    g2,         \* SWMMGeometry of file 2
    warnings,   \* warnings dict of run_compare
    tolerances, \* tolerances dict of run_compare
    node_ren,   \* node renames old -> new (kept for inspection)
    link_ren,   \* link renames old -> new
    sub_ren,    \* subcatchment renames old -> new
    renames,    \* renames grouped by section of file 1
    diffs,      \* section -> DiffSection [added, removed, changed]
    headers,    \* section -> effective header list
    out,        \* the returned result (diffs_json etc.)
    err,        \* the exception that left run_compare: [kind, detail]
    progress_callback, \* fourth argument of run_compare: None or a callable
    progress_log, \* the calls of the callback so far: [pct, msg]
    row_old,    \* old_vals handed to _calculate_field_diffs on its own
    row_new,    \* new_vals handed to _calculate_field_diffs on its own
    row_slopes, \* the two results of _calculate_slope for these rows
    row_diffs,  \* the result of _calculate_field_diffs for these rows
    rpt_name,   \* section_name of a report table (core_results.py)
    rpt_a,      \* section_lines of the table in report A, None when absent
    rpt_b,      \* section_lines of the table in report B, None when absent
    sec_a,      \* ParsedSection of report A, None when absent
    sec_b,      \* ParsedSection of report B, None when absent
    side,       \* SectionSideBySide built from sec_a and sec_b
    idx_grid,   \* SpatialIndex.grid: cell -> list of <<id, x, y>>
    idx_added,  \* the arguments of the add calls so far, in order
    idx_query,  \* the point of the last query_candidates call, None before
    idx_result  \* the list that call returned

runvars == <<payload1, payload2, pc, pr1, pr2, g1, g2, warnings, tolerances,
             node_ren, link_ren, sub_ren, renames, diffs, headers, out, err,
             progress_callback, progress_log>>
rowvars == <<row_old, row_new, row_slopes, row_diffs>>
rptvars == <<rpt_name, rpt_a, rpt_b, sec_a, sec_b, side>>
idxvars == <<idx_grid, idx_added, idx_query, idx_result>>
vars == <<runvars, rowvars, rptvars, idxvars>>

-----------------------------------------------------------------------------
(* Generic helpers: Optional, dicts, sequences.                            *)

None == <<>>
Some(v) == <<v>>
IsNone(o) == o = <<>>
Val(o) == o[1]

EmptyDict == <<>>

\* d[k] = v of a Python dict
Put(d, k, v) == [x \in (DOMAIN d) \cup {k} |-> IF x = k THEN v ELSE d[x]]

\* d.pop(k) / del d[k]
Del(d, k) == [x \in (DOMAIN d) \ {k} |-> d[x]]

\* d.get(k, default)
Get(d, k, default) == IF k \in DOMAIN d THEN d[k] ELSE default

Range(s) == {s[i] : i \in DOMAIN s}

\* all orders in which the elements of a finite set can be listed
RECURSIVE Orders(_)
Orders(S) ==
    IF S = {} THEN {<<>>}
    ELSE UNION {{<<x>> \o o : o \in Orders(S \ {x})} : x \in S}

\* s[from:] of a Python list (0-based from)
Drop(s, from) == IF from >= Len(s) THEN <<>> ELSE SubSeq(s, from + 1, Len(s))

\* s[:to] of a Python list
Take(s, to) == IF to >= Len(s) THEN s ELSE SubSeq(s, 1, to)

-----------------------------------------------------------------------------
(* Exact rationals for Python floats.                                      *)

Abs(n) == IF n < 0 THEN -n ELSE n

RECURSIVE GCD(_, _)
GCD(a, b) == IF b = 0 THEN a ELSE GCD(b, a % b)

Rat(n, d) ==
    LET s == IF d < 0 THEN -1 ELSE 1
        g == GCD(Abs(n), Abs(d))
    IN  <<(s * n) \div g, (s * d) \div g>>

RZero == <<0, 1>>
RInt(n) == <<n, 1>>
RNeg(a) == <<-a[1], a[2]>>
\* products are reduced crosswise before multiplying, to keep numbers small
RMul(a, b) ==
    LET ga == GCD(Abs(a[1]), b[2])
        gb == GCD(Abs(b[1]), a[2])
    IN  <<(a[1] \div ga) * (b[1] \div gb), (a[2] \div gb) * (b[2] \div ga)>>
RInv(a) == IF a[1] < 0 THEN <<-a[2], -a[1]>> ELSE <<a[2], a[1]>>
RDiv(a, b) == RMul(a, RInv(b))
RAdd(a, b) ==
    LET g == GCD(a[2], b[2])
    IN  Rat(a[1] * (b[2] \div g) + b[1] * (a[2] \div g), (a[2] \div g) * b[2])
RSub(a, b) == RAdd(a, RNeg(b))
RLt(a, b) ==
    LET g == GCD(a[2], b[2])
    IN  a[1] * (b[2] \div g) < b[1] * (a[2] \div g)
RLe(a, b) == ~RLt(b, a)
RAbs(a) == <<Abs(a[1]), a[2]>>
\* math.floor
RFloor(a) == a[1] \div a[2]

\* the integer square root: the largest r with r * r <= n
RECURSIVE IsqrtIn(_, _, _)
IsqrtIn(n, lo, hi) ==
    IF lo >= hi THEN lo
    ELSE LET mid == (lo + hi + 1) \div 2
         IN  IF mid * mid <= n THEN IsqrtIn(n, mid, hi) ELSE IsqrtIn(n, lo, mid - 1)
Isqrt(n) == IsqrtIn(n, 0, 46340)

\* the square root of a rational of square feet, in hundredths of a foot
\* (rounded down; in whole feet above 200000 square feet)
SqrtCenti(q) ==
    IF q[1] \div q[2] >= 200000 THEN 100 * Isqrt(q[1] \div q[2])
    ELSE Isqrt(RFloor(RMul(q, <<10000, 1>>)))

-----------------------------------------------------------------------------
(* Strings.  float(s) is modelled on the tokens the model's texts use:     *)
(* every other token is taken as not a number.                             *)

\* float(s) for a token s: None on ValueError
StrToFloat(s) ==
    CASE s = "0"      -> Some(<<0, 1>>)
      [] s = "0.0"    -> Some(<<0, 1>>)
      [] s = "0.01"   -> Some(<<1, 100>>)
      [] s = "0.02"   -> Some(<<1, 50>>)
      [] s = "0.3"    -> Some(<<3, 10>>)
      [] s = "0.4"    -> Some(<<2, 5>>)
      [] s = "0.5"    -> Some(<<1, 2>>)
      [] s = "1"      -> Some(<<1, 1>>)
      [] s = "1.0"    -> Some(<<1, 1>>)
      [] s = "2.0"    -> Some(<<2, 1>>)
      [] s = "2.5"    -> Some(<<5, 2>>)
      [] s = "2.50"   -> Some(<<5, 2>>)
      [] s = "2.5000005" -> Some(<<5000001, 2000000>>)
      [] s = "2.6"    -> Some(<<13, 5>>)
      [] s = "3.0"    -> Some(<<3, 1>>)
      [] s = "2"      -> Some(<<2, 1>>)
      [] s = "3"      -> Some(<<3, 1>>)
      [] s = "4"      -> Some(<<4, 1>>)
      [] s = "10"     -> Some(<<10, 1>>)
      [] s = "12"     -> Some(<<12, 1>>)
      [] s = "50"     -> Some(<<50, 1>>)
      [] s = "100"    -> Some(<<100, 1>>)
      [] s = "100.0"  -> Some(<<100, 1>>)
      [] s = "100.05" -> Some(<<2001, 20>>)
      [] s = "100.5"  -> Some(<<201, 2>>)
      [] s = "600"    -> Some(<<600, 1>>)
      [] s = "3000"   -> Some(<<3000, 1>>)
      [] s = "-5"     -> Some(<<-5, 1>>)
      [] OTHER        -> None

\* a token read from the file, as a field value
S(t) == [s |-> t]

\* float(v) for a field value v: None on ValueError
ToFloat(v) ==
    IF DOMAIN v = {"s"} THEN StrToFloat(v.s)
    ELSE IF DOMAIN v = {"fmt"} THEN Some(v.fmt)
    ELSE None

\* s.upper().strip() of a field value, as far as the model's tokens go
UpperStrip(v) ==
    IF DOMAIN v = {"s"}
    THEN (CASE v.s = "green_ampt" -> "GREEN_AMPT"
            [] v.s = "horton"     -> "HORTON"
            [] OTHER              -> v.s)
    ELSE "?"

\* tokens[from:] as field values
Fields(tokens, from) == [i \in 1..(Len(tokens) - from) |-> S(tokens[i + from])]

\* " ".join(tokens[from:]) as one field value
Join(tokens, from) ==
    IF Len(tokens) - from = 0 THEN S("")
    ELSE IF Len(tokens) - from = 1 THEN S(tokens[from + 1])
    ELSE [words |-> Drop(tokens, from)]

-----------------------------------------------------------------------------
(* Lines of a text.                                                        *)

Hdr(name) == [hdr |-> name, cmt |-> "", tok |-> <<"[" , name, "]">>, ind |-> 0, trl |-> 0]
Row(tokens) == [hdr |-> "", cmt |-> "", tok |-> tokens, ind |-> 0, trl |-> 0]
Blank == [hdr |-> "", cmt |-> "", tok |-> <<>>, ind |-> 0, trl |-> 0]
Comment(tokens) == [hdr |-> "", cmt |-> ";", tok |-> tokens, ind |-> 0, trl |-> 0]
HeaderComment(columns) == [hdr |-> "", cmt |-> ";;", tok |-> columns, ind |-> 0, trl |-> 0]
\* a line with ind blanks before and trl blanks after its text
Spaced(line, ind, trl) == [line EXCEPT !.ind = ind, !.trl = trl]

\* s.upper() of a token, as far as the model's tokens go
Upper(t) ==
    CASE t \in {"rule", "Rule"} -> "RULE"
      [] OTHER -> t

\* " ".join of the tokens from the 1-based position from on, as a str
RECURSIVE JoinStr(_, _)
JoinStr(tokens, from) ==
    IF from > Len(tokens) THEN ""
    ELSE IF from = Len(tokens) THEN tokens[from]
    ELSE tokens[from] \o " " \o JoinStr(tokens, from + 1)

\* str(n) of a small count
IntStr(n) == <<"0", "1", "2", "3", "4", "5", "6", "7", "8", "9">>[n + 1]

\* line.strip() == "": the line holds blanks only
IsBlank(line) == line.hdr = "" /\ line.cmt = "" /\ line.tok = <<>>

\* line.lstrip().upper().startswith("RULE ")
StartsWithRule(line) ==
    /\ line.hdr = "" /\ line.cmt = "" /\ line.tok # <<>>
    /\ Upper(line.tok[1]) = "RULE"
    /\ (Len(line.tok) >= 2 \/ line.trl >= 1)

\* text.strip() of a newline-joined text that starts with a line of text:
\* the blanks before its first token, the blank lines at its end and the
\* blanks after its last token go
RECURSIVE StripText(_)
StripText(text) ==
    IF text = <<>> THEN <<>>
    ELSE IF IsBlank(text[Len(text)]) THEN StripText(Take(text, Len(text) - 1))
    ELSE [i \in DOMAIN text |->
            [text[i] EXCEPT !.ind = IF i = 1 THEN 0 ELSE @,
                            !.trl = IF i = Len(text) THEN 0 ELSE @]]

-----------------------------------------------------------------------------
(* SECTION 2 of core_web.py: INP parsing.                                  *)

NodeSecs == <<"JUNCTIONS", "OUTFALLS", "DIVIDERS", "STORAGE">>
LinkSecs == <<"CONDUITS", "PUMPS", "ORIFICES", "WEIRS", "OUTLETS">>

\* SECTION_HEADERS.get(sec, []) for the sections of the model's texts
SECTION_HEADERS(sec) ==
    CASE sec = "OPTIONS" -> <<"Option", "Value">>
      [] sec = "SUBCATCHMENTS" ->
            <<"Name", "RainGage", "Outlet", "Area", "PctImperv", "Width",
              "Slope", "CurbLength", "SnowPack">>
      [] sec = "INFILTRATION" ->
            <<"Subcatch", "Max. Infil. Rate", "Min. Infil. Rate",
              "Decay Constant", "Drying Time", "Max Volume", "Method">>
      [] sec = "JUNCTIONS" ->
            <<"Name", "InvertElev", "MaxDepth", "InitDepth", "SurchargeDepth",
              "PondedArea">>
      [] sec = "STORAGE" ->
            <<"Name", "InvertElev", "MaxDepth", "InitDepth", "Shape", "Coeff1",
              "Coeff2", "Coeff3", "SurfArea", "EvapFactor", "SeepageRate",
              "Fevap">>
      [] sec = "CONDUITS" ->
            <<"Name", "FromNode", "ToNode", "Length", "Roughness", "InOffset",
              "OutOffset", "InitFlow", "MaxFlow">>
      [] sec = "PUMPS" ->
            <<"Name", "FromNode", "ToNode", "PumpCurve", "Status",
              "StartupDepth", "ShutoffDepth">>
      [] sec = "HYDROGRAPHS" ->
            <<"Hydrograph", "Month", "Response", "R", "T", "K", "Dmax",
              "Drecov", "Dinit", "RainGage">>
      [] sec = "CONTROLS" -> <<"RuleText">>
      [] sec = "TAGS" -> <<"Type", "ID", "Tag">>
      [] sec = "COORDINATES" -> <<"Node", "X", "Y">>
      [] sec = "VERTICES" -> <<"Link", "Data">>
      [] sec = "POLYGONS" -> <<"Subcatch", "Data">>
      [] OTHER -> <<>>

\* the parser's loop state before the first line
InpInit ==
    [sections |-> EmptyDict, headers |-> EmptyDict, tags |-> EmptyDict,
     temp_points |-> EmptyDict, temp_hydro_gages |-> EmptyDict,
     hydro_of |-> EmptyDict, current |-> "", current_control_rule |-> ""]

\* sections[sec][id] = values (sections is a defaultdict(dict))
SetRow(sections, sec, id, values) ==
    Put(sections, sec, Put(Get(sections, sec, EmptyDict), id, values))

\* one pass of the loop body of _parse_inp_iter.  hydro_of keeps, for a
\* HYDROGRAPHS key "hydrograph month response", the hydrograph id that the
\* code later splits off the key.
InpLine(st, line) ==
    IF line.hdr # ""
    THEN [st EXCEPT !.current = line.hdr,
                    !.current_control_rule = "",
                    !.headers = IF line.hdr \in DOMAIN st.headers THEN @
                                ELSE Put(@, line.hdr, SECTION_HEADERS(line.hdr))]
    ELSE IF st.current = "" THEN st
    ELSE IF st.current = "CONTROLS"
    THEN IF StartsWithRule(line)
         THEN LET rule == IF Len(line.tok) >= 2 THEN JoinStr(line.tok, 2)
                          ELSE "RULE_" \o IntStr(Cardinality(DOMAIN
                                   Get(st.sections, "CONTROLS", EmptyDict)))
              IN  [st EXCEPT !.current_control_rule = rule,
                             !.sections = SetRow(@, "CONTROLS", rule,
                                                 <<[text |-> <<line>>]>>)]
         ELSE IF st.current_control_rule # ""
         THEN [st EXCEPT !.sections["CONTROLS"][st.current_control_rule] =
                  <<[text |-> Append(@[1].text, line)]>>]
         ELSE st
    ELSE IF line.tok = <<>> /\ line.cmt = "" THEN st
    ELSE IF line.cmt = ";" THEN st
    ELSE IF line.cmt = ";;"
    THEN IF line.tok # <<>> /\ st.headers[st.current] = <<>>
         THEN [st EXCEPT !.headers = Put(@, st.current, line.tok)]
         ELSE st
    ELSE LET tokens == line.tok
             current == st.current
         IN  IF current = "TAGS"
             THEN IF Len(tokens) >= 3
                  THEN [st EXCEPT !.tags = Put(@, tokens[2], Join(tokens, 2))]
                  ELSE st
             ELSE IF current = "HYDROGRAPHS"
             THEN IF Len(tokens) = 2
                  THEN [st EXCEPT !.temp_hydro_gages = Put(@, tokens[1], tokens[2])]
                  ELSE IF Len(tokens) >= 9
                  THEN LET key == tokens[1] \o " " \o tokens[2] \o " " \o tokens[3]
                       IN  [st EXCEPT
                               !.sections = SetRow(@, current, key,
                                                   Take(Fields(tokens, 3), 6)),
                               !.headers = Put(@, current,
                                   <<"Hydrograph", "Month", "Response", "R", "T",
                                     "K", "Dmax", "Drecov", "Dinit", "RainGage">>),
                               !.hydro_of = Put(@, key, tokens[1])]
                  ELSE st
             ELSE IF current \in {"VERTICES", "POLYGONS"}
             THEN IF Len(tokens) < 3 THEN st
                  ELSE LET acc == Get(st.temp_points, current, EmptyDict)
                           pts == Get(acc, tokens[1], <<>>)
                       IN  [st EXCEPT !.temp_points =
                               Put(@, current,
                                   Put(acc, tokens[1],
                                       Append(pts, <<tokens[2], tokens[3]>>)))]
             ELSE IF current = "OPTIONS"
             THEN [st EXCEPT !.sections =
                      SetRow(@, current, tokens[1], <<Join(tokens, 1)>>)]
             ELSE [st EXCEPT !.sections =
                      SetRow(@, current, tokens[1], Fields(tokens, 1))]

RECURSIVE InpLoop(_, _)
InpLoop(st, lines) ==
    IF lines = <<>> THEN st ELSE InpLoop(InpLine(st, Head(lines)), Tail(lines))

\* the rule texts left as accumulated
FinalizeControls_untrimmed(sections) == sections

\* "Post-process CONTROLS to strip trailing whitespace from rule text"
FinalizeControls(sections) ==
    IF "CONTROLS" \in DOMAIN sections
    THEN [sections EXCEPT !["CONTROLS"] =
            [rule_id \in DOMAIN @ |-> <<[text |-> StripText(@[rule_id][1].text)]>>]]
    ELSE sections

\* "Finalize VERTICES and POLYGONS": one json.dumps field per id
FinalizePoints(sections, temp_points) ==
    LET secs == {"VERTICES", "POLYGONS"} \cap DOMAIN temp_points
    IN  [sec \in (DOMAIN sections) \cup secs |->
            IF sec \in secs
            THEN [eid \in (DOMAIN Get(sections, sec, EmptyDict))
                          \cup DOMAIN temp_points[sec] |->
                     IF eid \in DOMAIN temp_points[sec]
                     THEN <<[json |-> temp_points[sec][eid]]>>
                     ELSE sections[sec][eid]]
            ELSE sections[sec]]

\* "Finalize HYDROGRAPHS: Inject Rain Gage"
FinalizeHydrographs(sections, temp_hydro_gages, hydro_of) ==
    IF "HYDROGRAPHS" \in DOMAIN sections /\ temp_hydro_gages # EmptyDict
    THEN [sections EXCEPT !["HYDROGRAPHS"] =
            [key \in DOMAIN @ |->
                Append(@[key], S(Get(temp_hydro_gages, hydro_of[key], "")))]]
    ELSE sections

\* infil_method of _parse_inp_iter
InpInfilMethod(sections) ==
    IF "OPTIONS" \in DOMAIN sections /\ "INFILTRATION" \in DOMAIN sections["OPTIONS"]
    THEN LET val_list == sections["OPTIONS"]["INFILTRATION"]
         IN  IF val_list # <<>> /\ UpperStrip(val_list[1]) = "GREEN_AMPT"
             THEN "GREEN_AMPT" ELSE "HORTON"
    ELSE "HORTON"

\* "Post-process INFILTRATION based on OPTIONS"
FinalizeInfiltration(pr) ==
    IF InpInfilMethod(pr.sections) = "GREEN_AMPT"
    THEN [pr EXCEPT
            !.headers = Put(@, "INFILTRATION",
                            <<"Subcatch", "Suction Head (in)",
                              "Conductivity (in/hr)", "Initial Deficit (frac.)">>),
            !.sections = IF "INFILTRATION" \in DOMAIN @
                         THEN [@ EXCEPT !["INFILTRATION"] =
                                  [sub_id \in DOMAIN @ |-> Take(@[sub_id], 3)]]
                         ELSE @]
    ELSE pr

\* _parse_inp_iter(lines) -> INPParseResult
_parse_inp_iter(lines) ==
    LET st == InpLoop(InpInit, lines)
    IN  FinalizeInfiltration(
            [sections |-> FinalizeHydrographs(
                              FinalizePoints(FinalizeControls(st.sections),
                                             st.temp_points),
                              st.temp_hydro_gages, st.hydro_of),
             headers |-> st.headers,
             tags |-> st.tags])

-----------------------------------------------------------------------------
(* SECTION 3 of core_web.py: geometry parsing.  A point is <<x, y>>, two   *)
(* floats in feet.                                                         *)

GeomInit ==
    [nodes_raw |-> EmptyDict, vertices_raw |-> EmptyDict,
     links_endpoints |-> EmptyDict, subpolys_raw |-> EmptyDict,
     section |-> "", error |-> ""]

\* the point appended to the last ring, closed or not
AddPolygonPoint_one_ring(rings, pt) ==
    [rings EXCEPT ![Len(rings)] = Append(@, pt)]

\* the POLYGONS branch: append the point to the last ring, or to a new ring
\* when the last one is closed (>= 3 points and first = last)
AddPolygonPoint(rings, pt) ==
    LET current_ring == rings[Len(rings)]
    IN  IF Len(current_ring) >= 3 /\ current_ring[1] = current_ring[Len(current_ring)]
        THEN Append(rings, <<pt>>)
        ELSE [rings EXCEPT ![Len(rings)] = Append(current_ring, pt)]

\* one pass of the loop body of _parse_geom_iter; float() of a token that
\* is no number raises ValueError, which ends the parse
GeomLine(st, line) ==
    IF st.error # "" THEN st
    ELSE IF line.tok = <<>> \/ line.cmt # "" THEN st
    ELSE IF line.hdr # "" THEN [st EXCEPT !.section = line.hdr]
    ELSE LET parts == line.tok
             x == StrToFloat(parts[2])
             y == StrToFloat(parts[3])
         IN  IF st.section = "COORDINATES" /\ Len(parts) >= 3
             THEN IF IsNone(x) \/ IsNone(y)
                  THEN [st EXCEPT !.error = "ValueError"]
                  ELSE [st EXCEPT !.nodes_raw = Put(@, parts[1], <<Val(x), Val(y)>>)]
             ELSE IF st.section = "VERTICES" /\ Len(parts) >= 3
             THEN IF IsNone(x) \/ IsNone(y)
                  THEN [st EXCEPT !.error = "ValueError"]
                  ELSE [st EXCEPT !.vertices_raw =
                           Put(@, parts[1],
                               Append(Get(@, parts[1], <<>>), <<Val(x), Val(y)>>))]
             ELSE IF st.section \in Range(LinkSecs) /\ Len(parts) >= 3
             THEN [st EXCEPT !.links_endpoints = Put(@, parts[1], <<parts[2], parts[3]>>)]
             ELSE IF st.section = "POLYGONS" /\ Len(parts) >= 3
             THEN IF IsNone(x) \/ IsNone(y)
                  THEN [st EXCEPT !.error = "ValueError"]
                  ELSE [st EXCEPT !.subpolys_raw =
                           Put(@, parts[1],
                               AddPolygonPoint(Get(@, parts[1], <<<<>>>>),
                                               <<Val(x), Val(y)>>))]
             ELSE st

RECURSIVE GeomLoop(_, _)
GeomLoop(st, lines) ==
    IF lines = <<>> THEN st ELSE GeomLoop(GeomLine(st, Head(lines)), Tail(lines))

\* "Assemble full link coordinates (Start Node + Vertices + End Node)"
AssembleLinks(nodes_raw, vertices_raw, links_endpoints) ==
    LET coords(lid) ==
            (IF links_endpoints[lid][1] \in DOMAIN nodes_raw
             THEN <<nodes_raw[links_endpoints[lid][1]]>> ELSE <<>>)
            \o Get(vertices_raw, lid, <<>>)
            \o (IF links_endpoints[lid][2] \in DOMAIN nodes_raw
                THEN <<nodes_raw[links_endpoints[lid][2]]>> ELSE <<>>)
    IN  [lid \in {l \in DOMAIN links_endpoints : Len(coords(l)) >= 2} |-> coords(lid)]

\* _parse_geom_iter(lines) -> SWMMGeometry, or error = "ValueError"
_parse_geom_iter(lines) ==
    LET st == GeomLoop(GeomInit, lines)
    IN  [nodes |-> st.nodes_raw,
         links |-> AssembleLinks(st.nodes_raw, st.vertices_raw, st.links_endpoints),
         subpolys |-> st.subpolys_raw,
         error |-> st.error]

-----------------------------------------------------------------------------
(* SECTION 4 of core_web.py: spatial helpers.                              *)

\* _dist_m_xy(p1, p2), as the squared distance in square feet
Dist2(p1, p2) ==
    LET dx == RSub(p2[1], p1[1])
        dy == RSub(p2[2], p1[2])
    IN  RAdd(RMul(dx, dx), RMul(dy, dy))

RECURSIVE SumX(_)
SumX(points) == IF points = <<>> THEN RZero ELSE RAdd(Head(points)[1], SumX(Tail(points)))
RECURSIVE SumY(_)
SumY(points) == IF points = <<>> THEN RZero ELSE RAdd(Head(points)[2], SumY(Tail(points)))

RECURSIVE Flatten(_)
Flatten(rings) == IF rings = <<>> THEN <<>> ELSE Head(rings) \o Flatten(Tail(rings))

\* _centroid_xy(coords) of a flat point list: None when it is empty
_centroid_xy(points) ==
    IF points = <<>> THEN None
    ELSE Some(<<RDiv(SumX(points), RInt(Len(points))),
                RDiv(SumY(points), RInt(Len(points)))>>)

\* _FEET_TO_M = 0.3048
_FEET_TO_M == <<381, 1250>>

\* _polyline_length_m(coords), in hundredths of a foot
RECURSIVE PolylineCenti(_)
PolylineCenti(coords) ==
    IF Len(coords) < 2 THEN 0
    ELSE SqrtCenti(Dist2(coords[1], coords[2])) + PolylineCenti(Tail(coords))

RMaxOf(a, b) == IF RLt(a, b) THEN b ELSE a
RMinOf(a, b) == IF RLt(b, a) THEN b ELSE a

RECURSIVE MaxCoord(_, _)
MaxCoord(points, i) ==
    IF Len(points) = 1 THEN points[1][i]
    ELSE RMaxOf(points[1][i], MaxCoord(Tail(points), i))
RECURSIVE MinCoord(_, _)
MinCoord(points, i) ==
    IF Len(points) = 1 THEN points[1][i]
    ELSE RMinOf(points[1][i], MinCoord(Tail(points), i))

\* _bbox_area_m2(coords) of a flat point list, in square metres
_bbox_area_m2(points) ==
    IF points = <<>> THEN RZero
    ELSE LET w_ft == RSub(MaxCoord(points, 1), MinCoord(points, 1))
             h_ft == RSub(MaxCoord(points, 2), MinCoord(points, 2))
         IN  RMul(RMul(w_ft, _FEET_TO_M), RMul(h_ft, _FEET_TO_M))

\* _ratio_close(a, b, tol) with tol = tol_pct / 100
_ratio_close(a, b, tol_pct) ==
    IF a = RZero \/ b = RZero THEN FALSE
    ELSE LET r == RDiv(a, b)
         IN  RLe(<<100 - tol_pct, 100>>, r) /\ RLe(r, <<100 + tol_pct, 100>>)

-----------------------------------------------------------------------------
(* SECTION 5 of core_web.py: renaming.                                     *)

\* a variant that rounds towards zero: (int(x / cell_size), int(y / cell_size))
_get_cell_truncating(cell_size, x, y) ==
    LET trunc(a) == IF a[1] < 0 THEN -((-a[1]) \div a[2]) ELSE a[1] \div a[2]
    IN  <<trunc(RDiv(x, RInt(cell_size))), trunc(RDiv(y, RInt(cell_size)))>>

\* SpatialIndex._get_cell
_get_cell(cell_size, x, y) ==
    <<RFloor(RDiv(x, RInt(cell_size))), RFloor(RDiv(y, RInt(cell_size)))>>

\* SpatialIndex.add: the grid maps a cell to its list of <<id, x, y>>
IndexAdd(grid, cell_size, id, x, y) ==
    LET cell == _get_cell(cell_size, x, y)
    IN  Put(grid, cell, Append(Get(grid, cell, <<>>), <<id, x, y>>))

\* SpatialIndex built by adding the entries of a list in order
RECURSIVE IndexAddAll(_, _, _)
IndexAddAll(grid, cell_size, entries) ==
    IF entries = <<>> THEN grid
    ELSE IndexAddAll(IndexAdd(grid, cell_size, Head(entries)[1],
                              Head(entries)[2], Head(entries)[3]),
                     cell_size, Tail(entries))

\* the nine cells in the order of "for dx in (-1,0,1): for dy in (-1,0,1)"
Offsets == <<<<-1, -1>>, <<-1, 0>>, <<-1, 1>>, <<0, -1>>, <<0, 0>>, <<0, 1>>,
             <<1, -1>>, <<1, 0>>, <<1, 1>>>>

RECURSIVE CellsConcat(_, _, _, _)
CellsConcat(grid, cx, cy, k) ==
    IF k > Len(Offsets) THEN <<>>
    ELSE Get(grid, <<cx + Offsets[k][1], cy + Offsets[k][2]>>, <<>>)
         \o CellsConcat(grid, cx, cy, k + 1)

\* SpatialIndex.query_candidates
query_candidates(grid, cell_size, x, y) ==
    LET c == _get_cell(cell_size, x, y)
    IN  CellsConcat(grid, c[1], c[2], 1)

\* ids of a category: set().union(*[set(pr.sections.get(s, {})) for s in secs])
IdsOf(pr, secs) ==
    UNION {DOMAIN Get(pr.sections, secs[i], EmptyDict) : i \in DOMAIN secs}

\* node cell size: SpatialIndex(cell_size_ft=500.0)
NodeCellFt == 500
\* eps_m / _FEET_TO_M, the node tolerance in feet (0.5)
NodeTolFt == <<1, 2>>

\* the inner candidate loop of _build_node_renames: the nearest candidate
\* strictly inside the tolerance, the first one found on a tie;
\* best = <<>> or <<new_id, squared distance>>
RECURSIVE NodeBest(_, _, _)
NodeBest(p1, candidates, best) ==
    IF candidates = <<>> THEN best
    ELSE LET c == Head(candidates)
             d == Dist2(p1, <<c[2], c[3]>>)
             skip == RLt(NodeTolFt, RAbs(RSub(p1[1], c[2])))
                     \/ RLt(NodeTolFt, RAbs(RSub(p1[2], c[3])))
             better == RLt(d, RMul(NodeTolFt, NodeTolFt))
                       /\ (best = <<>> \/ RLt(d, best[2]))
         IN  NodeBest(p1, Tail(candidates),
                      IF ~skip /\ better THEN <<c[1], d>> ELSE best)

\* the loop "for old_id in u1" of _build_node_renames: the list of
\* <<old_id, best, best_d>>
RECURSIVE NodePairs(_, _, _, _)
NodePairs(u1, n1, grid, k) ==
    IF k > Len(u1) THEN <<>>
    ELSE LET old_id == u1[k]
             best == NodeBest(n1[old_id],
                              query_candidates(grid, NodeCellFt,
                                               n1[old_id][1], n1[old_id][2]),
                              <<>>)
         IN  (IF old_id \in DOMAIN n1 /\ best # <<>>
              THEN <<<<old_id, best[1], best[2]>>>> ELSE <<>>)
             \o NodePairs(u1, n1, grid, k + 1)

\* pairs.sort(key=lambda x: x[2]): a stable sort by distance
RECURSIVE InsertByDist(_, _)
InsertByDist(sorted, p) ==
    IF sorted = <<>> THEN <<p>>
    ELSE IF RLt(p[3], Head(sorted)[3]) THEN <<p>> \o sorted
    ELSE <<Head(sorted)>> \o InsertByDist(Tail(sorted), p)

RECURSIVE SortByDist(_, _)
SortByDist(pairs, k) ==
    IF k = 0 THEN <<>> ELSE InsertByDist(SortByDist(pairs, k - 1), pairs[k])

\* the final loop of _build_node_renames: take a pair unless its new id is
\* used; the renames dict is kept as the sequence of its items <<old, new>>
RECURSIVE GreedyAssign(_, _, _)
GreedyAssign(pairs, ren, used_new) ==
    IF pairs = <<>> THEN ren
    ELSE LET p == Head(pairs)
         IN  IF p[2] \in used_new
             THEN GreedyAssign(Tail(pairs), ren, used_new)
             ELSE GreedyAssign(Tail(pairs), Append(ren, <<p[1], p[2]>>), used_new \cup {p[2]})

\* a variant that takes every id of a for unique
UniqueIds_every_id(a, b, secs) == IdsOf(a, secs)

\* ids of a category present in a but not in b
UniqueIds(a, b, secs) == IdsOf(a, secs) \ IdsOf(b, secs)

\* the index entries of the new ids that have coordinates, in the order u2
RECURSIVE NodeEntries(_, _, _)
NodeEntries(u2, n2, k) ==
    IF k > Len(u2) THEN <<>>
    ELSE (IF u2[k] \in DOMAIN n2
          THEN <<<<u2[k], n2[u2[k]][1], n2[u2[k]][2]>>>> ELSE <<>>)
         \o NodeEntries(u2, n2, k + 1)

\* _build_node_renames; u1 and u2 are the lists the code builds by
\* iterating over Python sets of ids, whose order is not fixed
_build_node_renames(p1, p2, geo1, geo2, u1, u2) ==
    LET grid == IndexAddAll(EmptyDict, NodeCellFt, NodeEntries(u2, geo2.nodes, 1))
        pairs == NodePairs(u1, geo1.nodes, grid, 1)
    IN  GreedyAssign(SortByDist(pairs, Len(pairs)), <<>>, {})

\* endpoints(pr, lid) of _build_link_renames: a pair of Optional ids
LinkEndpoints(pr, lid) ==
    LET has(i) == lid \in DOMAIN Get(pr.sections, LinkSecs[i], EmptyDict)
                  /\ Len(pr.sections[LinkSecs[i]][lid]) >= 2
        hits == {i \in DOMAIN LinkSecs : has(i)}
        first == CHOOSE i \in hits : \A j \in hits : i <= j
    IN  IF hits = {} THEN <<None, None>>
        ELSE <<Some(pr.sections[LinkSecs[first]][lid][1].s),
               Some(pr.sections[LinkSecs[first]][lid][2].s)>>

\* link cell size: SpatialIndex(cell_size_ft=500.0)
LinkCellFt == 500
\* eps_centroid_m / _FEET_TO_M of the link pass, in feet (5)
LinkEpsFt == 5
\* len_tol of the link pass, in percent (0.05)
LinkLenTolPct == 5
\* the weight of an endpoint mismatch in the score (metres)
LinkMismatchScore == 1000

\* the index entries of the new links that have a polyline, in the order u2
RECURSIVE LinkEntries(_, _, _)
LinkEntries(u2, links2, k) ==
    IF k > Len(u2) THEN <<>>
    ELSE (IF u2[k] \in DOMAIN links2 /\ Len(links2[u2[k]]) >= 2
          THEN LET c2 == Val(_centroid_xy(links2[u2[k]]))
               IN  <<<<u2[k], c2[1], c2[2]>>>>
          ELSE <<>>)
         \o LinkEntries(u2, links2, k + 1)

\* _ratio_close(max(len1, 1e-6), max(len2, 1e-6), tol) on lengths kept in
\* hundredths of a foot: a zero length stands for 1e-6 m
LenClose(len1, len2) ==
    IF len1 = 0 \/ len2 = 0 THEN len1 = len2
    ELSE (100 - LinkLenTolPct) * len2 <= 100 * len1
         /\ 100 * len1 <= (100 + LinkLenTolPct) * len2

\* score = (0 if endpoint_ok else 1) * 1000 + dcent, kept as
\* <<0 or 1, squared centroid distance>>; a < b on two scores
ScoreLt(a, b) ==
    IF a[1] = b[1] THEN RLt(a[2], b[2])
    ELSE LET m(x) == x[1] * ((LinkMismatchScore * 100 * _FEET_TO_M[2]) \div _FEET_TO_M[1])
                     + SqrtCenti(x[2])
         IN  m(a) < m(b)

\* the inner candidate loop of _build_link_renames;
\* best = <<>> or <<new_id, score>>
RECURSIVE LinkBest(_, _, _, _, _, _, _, _, _)
LinkBest(e1, len1, c1, candidates, used_new, p2, links2, inv, best) ==
    IF candidates = <<>> THEN best
    ELSE LET new_id == Head(candidates)[1]
             e2 == LinkEndpoints(p2, new_id)
             mapped(x) == IF x # None /\ Val(x) \in DOMAIN inv THEN Some(inv[Val(x)]) ELSE x
             endpoint_ok == {e1[1], e1[2]} = {mapped(e2[1]), mapped(e2[2])}
             len2 == PolylineCenti(links2[new_id])
             c2 == Val(_centroid_xy(links2[new_id]))
             dcent == Dist2(c1, c2)
             score == <<IF endpoint_ok THEN 0 ELSE 1, dcent>>
             eligible == new_id \notin used_new
                         /\ (LenClose(len1, len2) \/ endpoint_ok)
                         /\ (~RLt(<<LinkEpsFt * LinkEpsFt, 1>>, dcent) \/ endpoint_ok)
         IN  LinkBest(e1, len1, c1, Tail(candidates), used_new, p2, links2, inv,
                      IF eligible /\ (best = <<>> \/ ScoreLt(score, best[2]))
                      THEN <<new_id, score>> ELSE best)

\* the loop "for old_id in u1" of _build_link_renames
RECURSIVE LinkLoop(_, _, _, _, _, _, _, _, _)
LinkLoop(u1, k, p1, p2, links1, links2, grid, inv, acc) ==
    IF k > Len(u1) THEN acc.renames
    ELSE LET old_id == u1[k]
             coords1 == links1[old_id]
             c1 == Val(_centroid_xy(coords1))
             best == LinkBest(LinkEndpoints(p1, old_id), PolylineCenti(coords1), c1,
                              query_candidates(grid, LinkCellFt, c1[1], c1[2]),
                              acc.used_new, p2, links2, inv, <<>>)
         IN  IF old_id \notin DOMAIN links1 \/ Len(coords1) < 2 \/ best = <<>>
             THEN LinkLoop(u1, k + 1, p1, p2, links1, links2, grid, inv, acc)
             ELSE LinkLoop(u1, k + 1, p1, p2, links1, links2, grid, inv,
                           [renames |-> Append(acc.renames, <<old_id, best[1]>>),
                            used_new |-> acc.used_new \cup {best[1]}])

\* A rename dict is kept with its insertion order, as the sequence of its
\* items <<old, new>>.
RenKeys(ren) == {ren[i][1] : i \in DOMAIN ren}
RenValues(ren) == {ren[i][2] : i \in DOMAIN ren}
\* ren[old]
RenGet(ren, old) == ren[CHOOSE i \in DOMAIN ren : ren[i][1] = old][2]

\* {v: k for k, v in ren.items()}: of several keys with one value the one
\* inserted last wins
Inverse(ren) ==
    [v \in RenValues(ren) |->
        ren[CHOOSE i \in DOMAIN ren :
               ren[i][2] = v /\ \A j \in DOMAIN ren : ren[j][2] = v => j <= i][1]]

\* _build_link_renames; u1 and u2 as in _build_node_renames
_build_link_renames(p1, p2, geo1, geo2, nren, u1, u2) ==
    LET grid == IndexAddAll(EmptyDict, LinkCellFt, LinkEntries(u2, geo2.links, 1))
    IN  LinkLoop(u1, 1, p1, p2, geo1.links, geo2.links, grid, Inverse(nren),
                 [renames |-> <<>>, used_new |-> {}])

\* subcatchment cell size: SpatialIndex(cell_size_ft=1000.0)
SubCellFt == 1000
\* eps_centroid_m / _FEET_TO_M of the subcatchment pass, in feet (10)
SubEpsFt == 10
\* area_tol of the subcatchment pass, in percent (0.10)
SubAreaTolPct == 10

\* _bbox_area_m2(poly) or 1.0
AreaOr1(poly) ==
    LET a == _bbox_area_m2(Flatten(poly)) IN IF a = RZero THEN <<1, 1>> ELSE a

\* the new subcatchments that pass "poly2 and len(poly2) >= 3", in the order u2
RECURSIVE SubEntries(_, _, _)
SubEntries(u2, subs2, k) ==
    IF k > Len(u2) THEN <<>>
    ELSE (IF u2[k] \in DOMAIN subs2 /\ Len(subs2[u2[k]]) >= 3
          THEN LET c2 == Val(_centroid_xy(Flatten(subs2[u2[k]])))
               IN  <<<<u2[k], c2[1], c2[2]>>>>
          ELSE <<>>)
         \o SubEntries(u2, subs2, k + 1)

\* the inner candidate loop of _build_sub_renames;
\* best = <<>> or <<new_id, squared centroid distance>>
RECURSIVE SubBest(_, _, _, _, _, _)
SubBest(c1, a1, candidates, used_new, subs2, best) ==
    IF candidates = <<>> THEN best
    ELSE LET new_id == Head(candidates)[1]
             a2 == AreaOr1(subs2[new_id])
             c2 == Val(_centroid_xy(Flatten(subs2[new_id])))
             dcent == Dist2(c1, c2)
             eligible == new_id \notin used_new
                         /\ _ratio_close(a1, a2, SubAreaTolPct)
                         /\ ~RLt(<<SubEpsFt * SubEpsFt, 1>>, dcent)
         IN  SubBest(c1, a1, Tail(candidates), used_new, subs2,
                     IF eligible /\ (best = <<>> \/ RLt(dcent, best[2]))
                     THEN <<new_id, dcent>> ELSE best)

\* the loop "for old_id in u1" of _build_sub_renames; after a match the
\* code adds new_id, the last candidate of the inner loop, to used_new
RECURSIVE SubLoop(_, _, _, _, _, _)
SubLoop(u1, k, subs1, subs2, grid, acc) ==
    IF k > Len(u1) THEN acc.renames
    ELSE LET old_id == u1[k]
             poly1 == subs1[old_id]
             c1 == Val(_centroid_xy(Flatten(poly1)))
             candidates == query_candidates(grid, SubCellFt, c1[1], c1[2])
             best == SubBest(c1, AreaOr1(poly1), candidates, acc.used_new, subs2, <<>>)
         IN  IF old_id \notin DOMAIN subs1 \/ Len(poly1) < 3 \/ best = <<>>
             THEN SubLoop(u1, k + 1, subs1, subs2, grid, acc)
             ELSE SubLoop(u1, k + 1, subs1, subs2, grid,
                          [renames |-> Append(acc.renames, <<old_id, best[1]>>),
                           used_new |-> acc.used_new
                                        \cup {candidates[Len(candidates)][1]}])

\* _build_sub_renames; u1 and u2 as in _build_node_renames
_build_sub_renames(p1, p2, geo1, geo2, u1, u2) ==
    LET grid == IndexAddAll(EmptyDict, SubCellFt, SubEntries(u2, geo2.subpolys, 1))
    IN  SubLoop(u1, 1, geo1.subpolys, geo2.subpolys, grid,
                [renames |-> <<>>, used_new |-> {}])

\* "if new_id in secmap and old_id not in secmap:
\*      secmap[old_id] = secmap.pop(new_id)" for every item of the inverted
\* rename dict, in its order
RECURSIVE Rekey(_, _, _)
Rekey(secmap, ren, k) ==
    IF k > Len(ren) THEN secmap
    ELSE LET new_id == ren[k][2]
             old_id == Inverse(ren)[new_id]
         IN  Rekey(IF new_id \in DOMAIN secmap /\ old_id \notin DOMAIN secmap
                   THEN Put(Del(secmap, new_id), old_id, secmap[new_id])
                   ELSE secmap,
                   ren, k + 1)

\* the endpoint rewrite of _apply_renames_to_pr2 on one row
RewriteEndpoints(vals, node_new_to_old) ==
    IF Len(vals) >= 2
    THEN [vals EXCEPT ![1] = S(Get(node_new_to_old, vals[1].s, vals[1].s)),
                      ![2] = S(Get(node_new_to_old, vals[2].s, vals[2].s))]
    ELSE vals

\* _apply_renames_to_pr2 (returns the mutated pr2)
_apply_renames_to_pr2(p2, nren, lren, sren) ==
    LET node_new_to_old == Inverse(nren)
        newsec(sec) ==
            IF sec \in Range(NodeSecs) THEN Rekey(p2.sections[sec], nren, 1)
            ELSE IF sec \in Range(LinkSecs)
            THEN Rekey([lid \in DOMAIN p2.sections[sec] |->
                           RewriteEndpoints(p2.sections[sec][lid], node_new_to_old)],
                       lren, 1)
            ELSE IF sec = "SUBCATCHMENTS" THEN Rekey(p2.sections[sec], sren, 1)
            ELSE p2.sections[sec]
    IN  [p2 EXCEPT !.sections = [sec \in DOMAIN p2.sections |-> newsec(sec)],
                   !.tags = Rekey(Rekey(Rekey(p2.tags, nren, 1), lren, 1), sren, 1)]

\* _apply_renames_to_geometry (returns the mutated g2)
_apply_renames_to_geometry(geo2, nren, lren, sren) ==
    [geo2 EXCEPT !.nodes = Rekey(@, nren, 1),
                 !.links = Rekey(@, lren, 1),
                 !.subpolys = Rekey(@, sren, 1)]

\* the first section of secs that holds id in pr, "" when none does
FirstSecOf(pr, secs, id) ==
    LET hits == {i \in DOMAIN secs : id \in DOMAIN Get(pr.sections, secs[i], EmptyDict)}
    IN  IF hits = {} THEN ""
        ELSE secs[CHOOSE i \in hits : \A j \in hits : i <= j]

\* by_sec of spatial_reconcile_and_remap_using_geom: renames grouped by the
\* section of file 1 that holds the old id
BySec(p1, nren, lren, sren) ==
    LET items ==
            {<<FirstSecOf(p1, NodeSecs, nren[i][1]), nren[i][1], nren[i][2]>> :
                i \in DOMAIN nren}
            \cup {<<FirstSecOf(p1, LinkSecs, lren[i][1]), lren[i][1], lren[i][2]>> :
                    i \in DOMAIN lren}
            \cup {<<"SUBCATCHMENTS", sren[i][1], sren[i][2]>> : i \in DOMAIN sren}
        found == {t \in items : t[1] # ""}
    IN  [sec \in {t[1] : t \in found} |->
            [old \in {t[2] : t \in {u \in found : u[1] = sec}} |->
                (CHOOSE t \in found : t[1] = sec /\ t[2] = old)[3]]]

-----------------------------------------------------------------------------
(* SECTION 6 of core_web.py: comparison.                                   *)

\* six decimals of a number: f"{val:.6f}" read back as a number
Round6(q) ==
    LET a == Abs(q[1])
        ip == a \div q[2]
        r0 == a % q[2]
        d1 == (r0 * 10) \div q[2]
        r1 == (r0 * 10) % q[2]
        d2 == (r1 * 10) \div q[2]
        r2 == (r1 * 10) % q[2]
        d3 == (r2 * 10) \div q[2]
        r3 == (r2 * 10) % q[2]
        d4 == (r3 * 10) \div q[2]
        r4 == (r3 * 10) % q[2]
        d5 == (r4 * 10) \div q[2]
        r5 == (r4 * 10) % q[2]
        d6 == (r5 * 10) \div q[2]
        r6 == (r5 * 10) % q[2]
        frac == ((((d1 * 10 + d2) * 10 + d3) * 10 + d4) * 10 + d5) * 10 + d6
        up == IF 2 * r6 >= q[2] THEN 1 ELSE 0
        n == ip * 1000000 + frac + up
    IN  Rat(IF q[1] < 0 THEN -n ELSE n, 1000000)

\* a variant that gives no slope to a row without both offsets
_calculate_slope_full_rows(conduit_vals) ==
    IF Len(conduit_vals) < 6 THEN None
    ELSE LET length == ToFloat(conduit_vals[3])
             in_offset == ToFloat(conduit_vals[5])
             out_offset == ToFloat(conduit_vals[6])
         IN  IF IsNone(length) THEN None
             ELSE IF RLe(Val(length), RZero) THEN Some(RZero)
             ELSE IF IsNone(in_offset) \/ IsNone(out_offset) THEN None
             ELSE Some(RDiv(RSub(Val(in_offset), Val(out_offset)), Val(length)))

\* _calculate_slope(conduit_vals, sections): None, or the slope
_calculate_slope(conduit_vals) ==
    IF Len(conduit_vals) < 3 THEN None
    ELSE LET length == ToFloat(conduit_vals[3])
             in_offset == IF Len(conduit_vals) > 4 THEN ToFloat(conduit_vals[5])
                          ELSE Some(RZero)
             out_offset == IF Len(conduit_vals) > 5 THEN ToFloat(conduit_vals[6])
                           ELSE Some(RZero)
         IN  IF IsNone(length) THEN None
             ELSE IF RLe(Val(length), RZero) THEN Some(RZero)
             ELSE IF IsNone(in_offset) \/ IsNone(out_offset) THEN None
             ELSE Some(RDiv(RSub(Val(in_offset), Val(out_offset)), Val(length)))

\* a variant that compares the fields of two rows as numbers where both are
\* numbers
compare_sections_numeric(secs1, secs2) ==
    LET recs1(sec) == Get(secs1, sec, EmptyDict)
        recs2(sec) == Get(secs2, sec, EmptyDict)
        same(v1, v2) == IF ~IsNone(ToFloat(v1)) /\ ~IsNone(ToFloat(v2))
                        THEN ToFloat(v1) = ToFloat(v2) ELSE v1 = v2
        added(sec) == (DOMAIN recs2(sec)) \ (DOMAIN recs1(sec))
        removed(sec) == (DOMAIN recs1(sec)) \ (DOMAIN recs2(sec))
        changedIds(sec) ==
            {k \in (DOMAIN recs1(sec)) \cap (DOMAIN recs2(sec)) :
                \/ Len(recs1(sec)[k]) # Len(recs2(sec)[k])
                \/ \E i \in DOMAIN recs1(sec)[k] :
                      ~same(recs1(sec)[k][i], recs2(sec)[k][i])}
        differs(sec) == added(sec) # {} \/ removed(sec) # {} \/ changedIds(sec) # {}
    IN  [sec \in {x \in (DOMAIN secs1) \cup (DOMAIN secs2) : differs(x)} |->
            [added |-> added(sec),
             removed |-> removed(sec),
             changed |-> [k \in changedIds(sec) |->
                             <<recs1(sec)[k], recs2(sec)[k]>>]]]

\* compare_sections: the DiffSection of every section that differs
compare_sections(secs1, secs2) ==
    LET recs1(sec) == Get(secs1, sec, EmptyDict)
        recs2(sec) == Get(secs2, sec, EmptyDict)
        added(sec) == (DOMAIN recs2(sec)) \ (DOMAIN recs1(sec))
        removed(sec) == (DOMAIN recs1(sec)) \ (DOMAIN recs2(sec))
        changedIds(sec) == {k \in (DOMAIN recs1(sec)) \cap (DOMAIN recs2(sec)) :
                               recs1(sec)[k] # recs2(sec)[k]}
        differs(sec) == added(sec) # {} \/ removed(sec) # {} \/ changedIds(sec) # {}
    IN  [sec \in {x \in (DOMAIN secs1) \cup (DOMAIN secs2) : differs(x)} |->
            [added |-> added(sec),
             removed |-> removed(sec),
             changed |-> [k \in changedIds(sec) |->
                             <<recs1(sec)[k], recs2(sec)[k]>>]]]

\* all_headers of compare_sections: headers1.get(sec) or headers2.get(sec, [])
EffectiveHeaders(h1, h2, sec) ==
    IF Get(h1, sec, <<>>) # <<>> THEN h1[sec] ELSE Get(h2, sec, <<>>)

\* a variant that reads the field one place further right
get_val_one_right(values, index) ==
    IF index + 1 < Len(values) THEN ToFloat(values[index + 2]) ELSE None

\* get_val(values, index) of _calculate_field_diffs (0-based index)
get_val(values, index) ==
    IF index < Len(values) THEN ToFloat(values[index + 1]) ELSE None

\* _calculate_field_diffs: the dict of numeric deltas of a changed row
_calculate_field_diffs(old_vals, new_vals, hdrs, section) ==
    LET delta(i) == RSub(Val(get_val(new_vals, i)), Val(get_val(old_vals, i)))
        has(i) == ~IsNone(get_val(old_vals, i)) /\ ~IsNone(get_val(new_vals, i))
        slope1 == _calculate_slope(old_vals)
        slope2 == _calculate_slope(new_vals)
        rimOld == ~IsNone(get_val(old_vals, 0)) /\ ~IsNone(get_val(old_vals, 1))
        rimNew == ~IsNone(get_val(new_vals, 0)) /\ ~IsNone(get_val(new_vals, 1))
        rim(vals) == RAdd(Val(get_val(vals, 0)), Val(get_val(vals, 1)))
        conduit ==
            {<<"Length", 2>>, <<"Roughness", 3>>, <<"InOffset", 4>>, <<"OutOffset", 5>>}
        keys ==
            IF hdrs = <<>> THEN {}
            ELSE IF section = "CONDUITS"
            THEN {f[1] : f \in {c \in conduit : has(c[2])}}
                 \cup (IF ~IsNone(slope1) /\ ~IsNone(slope2) THEN {"Slope"} ELSE {})
            ELSE IF section = "JUNCTIONS"
            THEN (IF has(0) THEN {"InvertElev"} ELSE {})
                 \cup (IF has(1) THEN {"MaxDepth"} ELSE {})
                 \cup (IF rimOld THEN {"RimElevation_old"} ELSE {})
                 \cup (IF rimNew THEN {"RimElevation_new"} ELSE {})
                 \cup (IF rimOld /\ rimNew THEN {"RimElevation_diff"} ELSE {})
            ELSE {}
    IN  [f \in keys |->
            CASE f = "Length" -> delta(2)
              [] f = "Roughness" -> delta(3)
              [] f = "InOffset" -> delta(4)
              [] f = "OutOffset" -> delta(5)
              [] f = "Slope" -> RSub(Val(slope2), Val(slope1))
              [] f = "InvertElev" -> delta(0)
              [] f = "MaxDepth" -> delta(1)
              [] f = "RimElevation_old" -> rim(old_vals)
              [] f = "RimElevation_new" -> rim(new_vals)
              [] f = "RimElevation_diff" -> RSub(rim(new_vals), rim(old_vals))]

\* tolerances.get(key, 0)
TolOf(tol, key) == Get(tol, key, RZero)

\* the tolerance key that covers field i (0-based) of a section, "" when none
TolKey(sec, i) ==
    IF sec = "CONDUITS"
    THEN (CASE i = 2 -> "CONDUIT_LENGTH"
            [] i = 3 -> "CONDUIT_ROUGHNESS"
            [] i \in {4, 5} -> "CONDUIT_OFFSET"
            [] OTHER -> "")
    ELSE IF sec = "JUNCTIONS"
    THEN (CASE i = 0 -> "JUNCTION_INVERT"
            [] i = 1 -> "JUNCTION_DEPTH"
            [] OTHER -> "")
    ELSE ""

\* old_vals + [""] * (max_len - len(old_vals)), read at 0-based i
Padded(vals, i) == IF i < Len(vals) THEN vals[i + 1] ELSE S("")

\* field_within_tol of _filter_changes_by_tolerance for two differing values
FieldWithinTol(tol, sec, i, v1, v2) ==
    /\ ~IsNone(ToFloat(v1))
    /\ ~IsNone(ToFloat(v2))
    /\ TolKey(sec, i) # ""
    /\ RLt(RZero, TolOf(tol, TolKey(sec, i)))
    /\ RLe(RAbs(RSub(Val(ToFloat(v1)), Val(ToFloat(v2)))), TolOf(tol, TolKey(sec, i)))

\* is_truly_different of _filter_changes_by_tolerance
IsTrulyDifferent(tol, sec, old_vals, new_vals) ==
    LET max_len == IF Len(old_vals) > Len(new_vals) THEN Len(old_vals) ELSE Len(new_vals)
    IN  \E i \in 0..(max_len - 1) :
            /\ Padded(old_vals, i) # Padded(new_vals, i)
            /\ ~FieldWithinTol(tol, sec, i, Padded(old_vals, i), Padded(new_vals, i))

\* a variant that does not skip renamed items
_filter_renamed_too(dfs, tol, ren) ==
    IF DOMAIN tol = {} \/ ~\E k \in DOMAIN tol : RLt(RZero, tol[k]) THEN dfs
    ELSE [sec \in DOMAIN dfs |->
            [dfs[sec] EXCEPT !.changed =
                [item_id \in {k \in DOMAIN dfs[sec].changed :
                                IsTrulyDifferent(tol, sec, dfs[sec].changed[k][1],
                                                 dfs[sec].changed[k][2])} |->
                    dfs[sec].changed[item_id]]]]

\* _filter_changes_by_tolerance (returns the mutated diffs)
_filter_changes_by_tolerance(dfs, tol, ren) ==
    IF DOMAIN tol = {} \/ ~\E k \in DOMAIN tol : RLt(RZero, tol[k]) THEN dfs
    ELSE [sec \in DOMAIN dfs |->
            [dfs[sec] EXCEPT !.changed =
                [item_id \in {k \in DOMAIN dfs[sec].changed :
                                \/ (sec \in DOMAIN ren /\ k \in DOMAIN ren[sec])
                                \/ IsTrulyDifferent(tol, sec, dfs[sec].changed[k][1],
                                                    dfs[sec].changed[k][2])} |->
                    dfs[sec].changed[item_id]]]]

\* "FORCE RENAMED ITEMS INTO CHANGED" of run_compare (returns diffs)
ForceRenamed(dfs, ren, p1, p2) ==
    [sec \in (DOMAIN dfs) \cup (DOMAIN ren) |->
        LET d == IF sec \in DOMAIN dfs THEN dfs[sec]
                 ELSE [added |-> {}, removed |-> {}, changed |-> EmptyDict]
            forced == IF sec \in DOMAIN ren THEN DOMAIN ren[sec] ELSE {}
        IN  [d EXCEPT !.changed =
                [id \in (DOMAIN d.changed) \cup forced |->
                    IF id \in DOMAIN d.changed THEN d.changed[id]
                    ELSE <<Get(Get(p1.sections, sec, EmptyDict), id, <<>>),
                           Get(Get(p2.sections, sec, EmptyDict), id, <<>>)>>]]]

\* headers after the force loop, the "New Name" and the "Slope" injection
OutHeaders(dfs, ren, p1, p2) ==
    [sec \in DOMAIN dfs |->
        LET h0 == EffectiveHeaders(p1.headers, p2.headers, sec)
            h1 == IF sec \in DOMAIN ren /\ DOMAIN ren[sec] # {}
                  THEN (IF \E i \in DOMAIN h0 : h0[i] = "New Name" THEN h0
                        ELSE IF h0 = <<>> THEN <<"New Name">>
                        ELSE <<h0[1], "New Name">> \o Tail(h0))
                  ELSE h0
        IN  IF sec = "CONDUITS" THEN Append(h1, "Slope") ELSE h1]

\* fmt_slope(val)
fmt_slope(val) == IF IsNone(val) THEN S("") ELSE [fmt |-> Round6(Val(val))]

\* vals.append(fmt_slope(_calculate_slope(vals, ...)))
WithSlope(vals) == Append(vals, fmt_slope(_calculate_slope(vals)))

-----------------------------------------------------------------------------
(* SECTION 7 of core_web.py: run_compare.                                  *)

\* the text bytes(n) decodes to: n NUL characters, one line that opens no
\* section and is no comment
NulText(n) == IF n = 0 THEN <<>> ELSE <<Row(<<"\\0">>)>>

\* _to_text_io(payload): the lines of the StringIO, None when it raises
\* TypeError.  bytes(payload) of the last-ditch branch succeeds for a
\* non-negative int (that many zero bytes) and for a list of ints below 256
\* (those bytes), and raises for None, a float and a negative int.
_to_text_io(payload) ==
    CASE payload.type = "str" -> Some(payload.lines)
      [] payload.type \in {"bytes", "bytearray"} -> Some(payload.lines)
      [] payload.type = "memoryview" -> Some(payload.lines)
      [] payload.type = "int" ->
            IF payload.n >= 0 THEN Some(NulText(payload.n)) ELSE None
      [] payload.type = "list" -> Some(payload.lines)
      [] OTHER -> None

\* get_infil_method(pr) of run_compare
get_infil_method(pr) ==
    IF "OPTIONS" \in DOMAIN pr.sections /\ "INFILTRATION" \in DOMAIN pr.sections["OPTIONS"]
    THEN LET val == pr.sections["OPTIONS"]["INFILTRATION"]
         IN  IF val # <<>> THEN UpperStrip(val[1]) ELSE "HORTON"
    ELSE "HORTON"

\* the parse result left as it is
ClearInfiltration_keep(pr) == pr

\* the clearing of INFILTRATION on a method mismatch
ClearInfiltration(pr) ==
    [pr EXCEPT !.sections = IF "INFILTRATION" \in DOMAIN @
                            THEN Put(@, "INFILTRATION", EmptyDict) ELSE @,
               !.headers = Put(@, "INFILTRATION", <<>>)]

\* WithSlope applied k times
RECURSIVE SlopeTimes(_, _)
SlopeTimes(vals, k) == IF k = 0 THEN vals ELSE SlopeTimes(WithSlope(vals), k - 1)

B2N(b) == IF b THEN 1 ELSE 0

\* 'INJECT "Slope" COLUMN for CONDUITS': the rows of one file after the
\* three loops; a row is appended to once as an added/removed row and once
\* more as the old/new list of a changed item, which is the same list
SlopeRows(p, dfs, onceIds) ==
    IF "CONDUITS" \in DOMAIN dfs /\ "CONDUITS" \in DOMAIN p.sections
    THEN [p EXCEPT !.sections["CONDUITS"] =
            [rid \in DOMAIN @ |->
                SlopeTimes(@[rid], B2N(rid \in onceIds)
                                   + B2N(rid \in DOMAIN dfs["CONDUITS"].changed))]]
    ELSE p

\* the old/new lists of the changed items after the Slope injection
SlopeChanged(dfs, p1, p2) ==
    IF "CONDUITS" \in DOMAIN dfs
    THEN [dfs EXCEPT !["CONDUITS"].changed =
            [rid \in DOMAIN @ |->
                <<IF rid \in DOMAIN Get(p1.sections, "CONDUITS", EmptyDict)
                  THEN p1.sections["CONDUITS"][rid] ELSE WithSlope(@[rid][1]),
                  IF rid \in DOMAIN Get(p2.sections, "CONDUITS", EmptyDict)
                  THEN p2.sections["CONDUITS"][rid] ELSE WithSlope(@[rid][2])>>]]
    ELSE dfs

\* get_vals(source, rid) of run_compare
get_vals(source, rid, has_new_name_col) ==
    IF has_new_name_col THEN <<S("NA")>> \o Get(source, rid, <<>>)
    ELSE Get(source, rid, <<>>)

\* diffs_json of run_compare
DiffsJson(dfs, hdrs, ren, p1, p2) ==
    [sec \in DOMAIN dfs |->
        LET s1 == Get(p1.sections, sec, EmptyDict)
            s2 == Get(p2.sections, sec, EmptyDict)
            has_new_name_col == \E i \in DOMAIN hdrs[sec] : hdrs[sec][i] = "New Name"
            new_name(rid) ==
                IF sec \in DOMAIN ren /\ rid \in DOMAIN ren[sec]
                THEN S(ren[sec][rid]) ELSE S("NA")
            disp(rid, vals) ==
                IF has_new_name_col THEN <<new_name(rid)>> \o vals ELSE vals
        IN  [added |-> [rid \in dfs[sec].added |-> get_vals(s2, rid, has_new_name_col)],
             removed |-> [rid \in dfs[sec].removed |-> get_vals(s1, rid, has_new_name_col)],
             changed |-> [rid \in DOMAIN dfs[sec].changed |->
                 [values |-> <<disp(rid, dfs[sec].changed[rid][1]),
                               disp(rid, dfs[sec].changed[rid][2])>>,
                  diff_values |->
                      _calculate_field_diffs(dfs[sec].changed[rid][1],
                                             dfs[sec].changed[rid][2],
                                             hdrs[sec], sec)]]]]

-----------------------------------------------------------------------------
(* The inputs of the model: texts built from a few elements.               *)

\* the largest number of elements of one text
MaxElems == 2

\* an element is a sequence of rows <<section, tokens>>
NodeEl(sec, id, fields, x, y) ==
    <<<<sec, <<id>> \o fields>>, <<"COORDINATES", <<id, x, y>>>>>>
RowEl(sec, id, fields) == <<<<sec, <<id>> \o fields>>>>
SubEl(id, pts) ==
    <<<<"SUBCATCHMENTS", <<id, "RG1", "J1", "10", "50">>>>>>
    \o [i \in DOMAIN pts |-> <<"POLYGONS", <<id, pts[i][1], pts[i][2]>>>>]

\* a polygon of three rings: two closed ones and a last point
ThreeRings == <<<<"0", "0">>, <<"10", "0">>, <<"10", "10">>, <<"0", "0">>,
                <<"1", "1">>, <<"2", "1">>, <<"1", "1">>, <<"3", "3">>>>
ThreeRingsMoved == <<<<"4", "0">>, <<"12", "0">>, <<"12", "10">>, <<"4", "0">>,
                     <<"4", "1">>, <<"4", "2">>, <<"4", "1">>, <<"4", "3">>>>
\* the polygon of three rings with its last point one foot to the right
ThreeRingsNear == <<<<"0", "0">>, <<"10", "0">>, <<"10", "10">>, <<"0", "0">>,
                    <<"1", "1">>, <<"2", "1">>, <<"1", "1">>, <<"4", "3">>>>
OneRing == <<<<"0", "0">>, <<"10", "0">>, <<"10", "10">>, <<"0", "0">>>>

JFields == <<"100", "10", "0", "0", "0">>

PoolNodes ==
    <<NodeEl("JUNCTIONS", "J1", JFields, "0", "0"),
      NodeEl("JUNCTIONS", "J2", JFields, "0", "0"),
      NodeEl("JUNCTIONS", "J2", <<"100", "12", "0", "0", "0">>, "0", "0"),
      NodeEl("STORAGE", "J2", JFields, "0.3", "0"),
      NodeEl("JUNCTIONS", "J3", JFields, "0.4", "0"),
      NodeEl("JUNCTIONS", "J1", <<"100.5", "10", "0", "0", "0">>, "600", "0"),
      NodeEl("JUNCTIONS", "J4", JFields, "x", "0"),
      NodeEl("JUNCTIONS", "J5", JFields, "0.3", "0")>>

PoolConduits ==
    <<RowEl("CONDUITS", "C1", <<"J1", "J2", "100.0", "0.01", "2", "0">>),
      RowEl("CONDUITS", "C1", <<"J1", "J2", "100.05", "0.01", "2", "0">>),
      RowEl("CONDUITS", "C1", <<"J1", "J2", "100.0", "abc", "2", "0">>),
      RowEl("CONDUITS", "C1", <<"J1", "J2", "100.05", "0.02", "2", "0">>),
      RowEl("CONDUITS", "C2", <<"J1", "J2", "100.0">>),
      RowEl("CONDUITS", "C2", <<"J1", "J2", "50", "0.01", "2">>),
      RowEl("JUNCTIONS", "J1", JFields),
      RowEl("JUNCTIONS", "J1", <<"100.5", "10", "0", "0", "0">>),
      RowEl("JUNCTIONS", "J1", <<"100.0", "10", "0", "0", "0">>)>>

PoolLinks ==
    <<NodeEl("JUNCTIONS", "J1", JFields, "0", "0")
        \o NodeEl("JUNCTIONS", "J2", JFields, "10", "0"),
      RowEl("CONDUITS", "C1", <<"J1", "J2", "100", "0.01", "0", "0">>),
      RowEl("CONDUITS", "C2", <<"J1", "J2", "100", "0.01", "0", "0">>),
      RowEl("CONDUITS", "C3", <<"J2", "J1", "100.5", "0.01", "0", "0">>),
      RowEl("PUMPS", "P1", <<"J1", "J2", "CURVE1", "ON", "0", "0">>),
      RowEl("VERTICES", "C2", <<"4", "3">>),
      RowEl("CONDUITS", "C4", <<"J1", "J2", "100", "0.01", "0", "0">>)
        \o RowEl("VERTICES", "C4", <<"3000", "0">>),
      RowEl("CONDUITS", "C5", <<"J1", "J9", "100", "0.01", "0", "0">>)
        \o RowEl("VERTICES", "C5", <<"4", "3">>)>>

PoolSubs ==
    <<SubEl("S1", ThreeRings),
      SubEl("S2", ThreeRings),
      SubEl("S3", ThreeRingsMoved),
      SubEl("S4", OneRing),
      RowEl("OPTIONS", "INFILTRATION", <<"GREEN_AMPT">>)
        \o RowEl("INFILTRATION", "S1", <<"3", "0.5", "4", "10", "0">>),
      RowEl("INFILTRATION", "S1", <<"3", "0.5", "4", "10", "0">>)
        \o RowEl("TAGS", "Subcatch", <<"S2", "north", "side">>),
      RowEl("OPTIONS", "INFILTRATION", <<"horton">>)
        \o RowEl("INFILTRATION", "S1", <<"3", "0.5", "4", "12", "0">>)
        \o RowEl("INFILTRATION", "S2", <<"3", "0.5", "4", "10", "0">>),
      SubEl("S5", ThreeRings) \o SubEl("S6", ThreeRingsNear),
      SubEl("S7", OneRing)>>

PoolHydrographs ==
    <<RowEl("HYDROGRAPHS", "H1", <<"JAN", "SHORT", "0.1", "0.2", "0.3", "0", "0", "0">>),
      RowEl("HYDROGRAPHS", "H2", <<"G1">>),
      RowEl("HYDROGRAPHS", "H1", <<"G2">>)>>

Pools == <<PoolNodes, PoolConduits, PoolLinks, PoolSubs, PoolHydrographs>>

\* the order in which a text lists its sections
SecOrder == <<"OPTIONS", "JUNCTIONS", "STORAGE", "CONDUITS", "PUMPS",
              "SUBCATCHMENTS", "INFILTRATION", "HYDROGRAPHS", "TAGS",
              "COORDINATES", "VERTICES", "POLYGONS">>

\* the rows of section sec of the elements E of a pool, in pool order
RECURSIVE RowsOf(_, _, _, _)
RowsOf(pool, E, sec, k) ==
    IF k > Len(pool) THEN <<>>
    ELSE (IF k \in E
          THEN LET el == pool[k]
                   RECURSIVE pick(_)
                   pick(i) == IF i > Len(el) THEN <<>>
                              ELSE (IF el[i][1] = sec THEN <<Row(el[i][2])>> ELSE <<>>)
                                   \o pick(i + 1)
               IN  pick(1)
          ELSE <<>>)
         \o RowsOf(pool, E, sec, k + 1)

\* the text of the elements E of a pool: a comment, then every section
\* that has rows as its header, a dashes line, the rows and a blank line
RECURSIVE MkSections(_, _, _)
MkSections(pool, E, k) ==
    IF k > Len(SecOrder) THEN <<>>
    ELSE (IF RowsOf(pool, E, SecOrder[k], 1) # <<>>
          THEN <<Hdr(SecOrder[k]), HeaderComment(<<>>)>>
               \o RowsOf(pool, E, SecOrder[k], 1) \o <<Blank>>
          ELSE <<>>)
         \o MkSections(pool, E, k + 1)

MkFile(pool, E) == <<Comment(<<"model">>)>> \o MkSections(pool, E, 1)

Files(pool) ==
    {MkFile(pool, E) : E \in {X \in SUBSET (DOMAIN pool) : Cardinality(X) <= MaxElems}}

TextPayload(type, lines) == [type |-> type, lines |-> lines, n |-> 0]

\* payloads that are no str
OtherPayloads ==
    {TextPayload("bytes", MkFile(PoolNodes, {1})),
     TextPayload("bytearray", MkFile(PoolNodes, {2})),
     TextPayload("memoryview", MkFile(PoolNodes, {1})),
     TextPayload("list", MkFile(PoolNodes, {2})),
     TextPayload("NoneType", <<>>),
     TextPayload("float", <<>>),
     [type |-> "int", lines |-> <<>>, n |-> 0],
     [type |-> "int", lines |-> <<>>, n |-> 2],
     [type |-> "int", lines |-> <<>>, n |-> -1]}

\* the tolerance dicts a caller passes (tolerances_py); None is the empty dict
ToleranceInputs ==
    {EmptyDict,
     [k \in {"CONDUIT_LENGTH"} |-> <<1, 10>>],
     [k \in {"CONDUIT_LENGTH"} |-> <<1, 100>>],
     [k \in {"CONDUIT_LENGTH", "CONDUIT_SLOPE"} |-> RZero],
     [k \in {"CONDUIT_LENGTH", "CONDUIT_ROUGHNESS", "JUNCTION_INVERT"} |->
         IF k = "CONDUIT_LENGTH" THEN <<1, 10>>
         ELSE IF k = "CONDUIT_ROUGHNESS" THEN <<1, 100>> ELSE <<1, 2>>]}

\* the progress_callback a caller passes: None, or a callable whose calls
\* may raise
Callbacks == {None, Some("callable")}

NoGeom == [nodes |-> EmptyDict, links |-> EmptyDict, subpolys |-> EmptyDict, error |-> ""]
NoParse == [sections |-> EmptyDict, headers |-> EmptyDict, tags |-> EmptyDict]
NoErr == [kind |-> "", detail |-> ""]
NoOut == [diffs |-> EmptyDict, headers |-> EmptyDict, renames |-> EmptyDict,
          sections1 |-> EmptyDict, sections2 |-> EmptyDict, warnings |-> EmptyDict,
          tolerances |-> EmptyDict]

\* the state of a run before its first step, but for the payloads
FreshRun ==
    /\ pr1 = NoParse /\ pr2 = NoParse
    /\ g1 = NoGeom /\ g2 = NoGeom
    /\ warnings = EmptyDict
    /\ tolerances = EmptyDict
    /\ node_ren = <<>> /\ link_ren = <<>> /\ sub_ren = <<>>
    /\ renames = EmptyDict
    /\ diffs = EmptyDict
    /\ headers = EmptyDict
    /\ out = NoOut
    /\ err = NoErr
    /\ progress_log = <<>>

\* a SpatialIndex not yet built
NoIndex ==
    /\ idx_grid = EmptyDict /\ idx_added = <<>>
    /\ idx_query = <<>> /\ idx_result = <<>>

\* and no report table at hand
Fresh ==
    /\ FreshRun
    /\ rpt_name = "" /\ rpt_a = <<>> /\ rpt_b = <<>>
    /\ sec_a = <<>> /\ sec_b = <<>> /\ side = <<>>
    /\ NoIndex

Init ==
    /\ \/ \E f \in DOMAIN Pools :
            /\ payload1 \in {TextPayload("str", t) : t \in Files(Pools[f])}
            /\ payload2 \in {TextPayload("str", t) : t \in Files(Pools[f])}
       \/ /\ payload1 \in OtherPayloads \cup {TextPayload("str", MkFile(PoolNodes, {1}))}
          /\ payload2 \in OtherPayloads \cup {TextPayload("str", MkFile(PoolNodes, {1}))}
    /\ progress_callback \in Callbacks
    /\ pc = "start"
    /\ Fresh
    /\ row_old = <<>> /\ row_new = <<>>
    /\ row_slopes = <<>> /\ row_diffs = EmptyDict

-----------------------------------------------------------------------------
(* run_compare, step by step.                                              *)

\* what "if progress_callback: progress_callback(pct, msg)" at the given
\* milestones can do: "" when every call returns (or there is no
\* callback), else the milestone of the first call that raises
CallbackRaises(milestones) ==
    IF IsNone(progress_callback) THEN {""}
    ELSE {""} \cup {milestones[k] : k \in DOMAIN milestones}

\* sorted(...) of section names
SortedSections == <<"CONDUITS", "CONTROLS", "COORDINATES", "GREEN_AMPT",
                    "HORTON", "HYDROGRAPHS", "INFILTRATION", "JUNCTIONS",
                    "OPTIONS", "POLYGONS", "PUMPS", "STORAGE",
                    "SUBCATCHMENTS", "TAGS", "VERTICES">>

RECURSIVE SortSections(_, _)
SortSections(secs, k) ==
    IF k > Len(SortedSections) THEN <<>>
    ELSE (IF SortedSections[k] \in secs THEN <<SortedSections[k]>> ELSE <<>>)
         \o SortSections(secs, k + 1)

\* a variant that walks the sections from the last name to the first
RECURSIVE SortSectionsDown(_, _)
SortSectionsDown(secs, k) ==
    IF k < 1 THEN <<>>
    ELSE (IF SortedSections[k] \in secs THEN <<SortedSections[k]>> ELSE <<>>)
         \o SortSectionsDown(secs, k - 1)

AllSecs_descending(secs1, secs2) ==
    SortSectionsDown((DOMAIN secs1) \cup (DOMAIN secs2), Len(SortedSections))

\* all_secs of compare_sections
AllSecs(secs1, secs2) == SortSections((DOMAIN secs1) \cup (DOMAIN secs2), 1)

\* the first argument of the call at a milestone: the literal of
\* run_compare, or 40 + (i / max(total_secs, 1) * 50) for section i of
\* compare_sections
Pct(milestone, all_secs) ==
    IF \E i \in DOMAIN all_secs : all_secs[i] = milestone
    THEN LET i == CHOOSE i \in DOMAIN all_secs : all_secs[i] = milestone
         IN  RAdd(RInt(40), RMul(Rat(i - 1, Len(all_secs)), RInt(50)))
    ELSE CASE milestone = "5" -> RInt(5)
           [] milestone = "10" -> RInt(10)
           [] milestone = "15" -> RInt(15)
           [] milestone = "20" -> RInt(20)
           [] milestone = "25" -> RInt(25)
           [] milestone = "35" -> RInt(35)
           [] milestone = "40" -> RInt(40)
           [] milestone = "90" -> RInt(90)
           [] milestone = "95" -> RInt(95)

\* progress_log after the calls at the milestones, up to the one that
\* raises; no call is made without a callback
RECURSIVE Reported(_, _, _, _)
Reported(log, milestones, raises, all_secs) ==
    IF IsNone(progress_callback) \/ milestones = <<>> THEN log
    ELSE LET call == [pct |-> Pct(Head(milestones), all_secs),
                      msg |-> Head(milestones)]
         IN  IF Head(milestones) = raises THEN Append(log, call)
             ELSE Reported(Append(log, call), Tail(milestones), raises, all_secs)

\* the exception of the callback leaves run_compare, which has no handler
\* for it; the locals of the call are lost with its frame
CallbackAborts(milestone, milestones, all_secs) ==
    /\ pc' = "raised"
    /\ err' = [kind |-> "CallbackError", detail |-> milestone]
    /\ progress_log' = Reported(progress_log, milestones, milestone, all_secs)
    /\ UNCHANGED <<rowvars, rptvars, idxvars>>
    /\ UNCHANGED <<progress_callback, payload1, payload2, pr1, pr2, g1, g2,
                   warnings, tolerances, node_ren, link_ren, sub_ren, renames,
                   diffs, headers, out>>

\* f1 = _to_text_io(file1_bytes); f2 = _to_text_io(file2_bytes)
ToText ==
    /\ pc = "start"
    /\ IF IsNone(_to_text_io(payload1))
       THEN /\ pc' = "raised"
            /\ err' = [kind |-> "TypeError", detail |-> payload1.type]
       ELSE IF IsNone(_to_text_io(payload2))
       THEN /\ pc' = "raised"
            /\ err' = [kind |-> "TypeError", detail |-> payload2.type]
       ELSE /\ pc' = "text"
            /\ err' = err
    /\ UNCHANGED <<rowvars, rptvars, idxvars, progress_log>>
    /\ UNCHANGED <<progress_callback, payload1, payload2, pr1, pr2, g1, g2, warnings, tolerances,
                   node_ren, link_ren, sub_ren, renames, diffs, headers, out>>

\* "1. Parse Attributes"
ParseInp ==
    /\ pc = "text"
    /\ \E r \in CallbackRaises(<<"5", "10", "15">>) :
          IF r # "" THEN CallbackAborts(r, <<"5", "10", "15">>,
                                        <<>>)
          ELSE /\ progress_log' = Reported(progress_log, <<"5", "10", "15">>,
                                          r, <<>>)
               /\ pr1' = _parse_inp_iter(Val(_to_text_io(payload1)))
               /\ pr2' = _parse_inp_iter(Val(_to_text_io(payload2)))
               /\ pc' = "parsed"
               /\ UNCHANGED <<rowvars, rptvars, idxvars>>
               /\ UNCHANGED <<progress_callback, payload1, payload2, g1, g2,
                              warnings, tolerances, node_ren, link_ren, sub_ren,
                              renames, diffs, headers, out, err>>

\* "2. Parse Geometry": float() of a coordinate raises ValueError, which
\* nothing in run_compare catches
ParseGeom ==
    /\ pc = "parsed"
    /\ LET geo1 == _parse_geom_iter(Val(_to_text_io(payload1)))
           geo2 == _parse_geom_iter(Val(_to_text_io(payload2)))
       IN  IF geo1.error # ""
           THEN /\ pc' = "raised"
                /\ err' = [kind |-> geo1.error, detail |-> "file1"]
                /\ UNCHANGED <<g1, g2, progress_log>>
           ELSE IF geo2.error # ""
           THEN /\ pc' = "raised"
                /\ err' = [kind |-> geo2.error, detail |-> "file2"]
                /\ g1' = geo1
                /\ UNCHANGED <<g2, progress_log>>
           ELSE \E r \in CallbackRaises(<<"20">>) :
                   IF r # ""
                   THEN /\ pc' = "raised"
                        /\ err' = [kind |-> "CallbackError", detail |-> r]
                        /\ g1' = geo1
                        /\ g2' = geo2
                        /\ progress_log' = Reported(progress_log, <<"20">>, r, <<>>)
                   ELSE /\ pc' = "geom"
                        /\ g1' = geo1
                        /\ g2' = geo2
                        /\ err' = err
                        /\ progress_log' = Reported(progress_log, <<"20">>, r, <<>>)
    /\ UNCHANGED <<rowvars, rptvars, idxvars>>
    /\ UNCHANGED <<progress_callback, payload1, payload2, pr1, pr2, warnings, tolerances,
                   node_ren, link_ren, sub_ren, renames, diffs, headers, out>>

\* "2.5 Check for Infiltration Mismatch"
CheckInfiltration ==
    /\ pc = "geom"
    /\ IF get_infil_method(pr1) # get_infil_method(pr2)
       THEN /\ warnings' = Put(warnings, "INFILTRATION",
                               <<get_infil_method(pr1), get_infil_method(pr2)>>)
            /\ pr1' = ClearInfiltration(pr1)
            /\ pr2' = ClearInfiltration(pr2)
       ELSE UNCHANGED <<warnings, pr1, pr2>>
    /\ pc' = "infil"
    /\ UNCHANGED <<rowvars, rptvars, idxvars, progress_log>>
    /\ UNCHANGED <<progress_callback, payload1, payload2, g1, g2, tolerances,
                   node_ren, link_ren, sub_ren, renames, diffs, headers, out, err>>

\* "3. Spatial Reconciliation": spatial_reconcile_and_remap_using_geom
Reconcile ==
    /\ pc = "infil"
    /\ \E r \in CallbackRaises(<<"25", "35">>) :
          IF r # "" THEN CallbackAborts(r, <<"25", "35">>,
                                        <<>>)
          ELSE /\ progress_log' = Reported(progress_log, <<"25", "35">>,
                                          r, <<>>)
               /\ \E nu1 \in Orders(UniqueIds(pr1, pr2, NodeSecs)),
                     nu2 \in Orders(UniqueIds(pr2, pr1, NodeSecs)),
                     lu1 \in Orders(UniqueIds(pr1, pr2, LinkSecs)),
                     lu2 \in Orders(UniqueIds(pr2, pr1, LinkSecs)),
                     su1 \in Orders(UniqueIds(pr1, pr2, <<"SUBCATCHMENTS">>)),
                     su2 \in Orders(UniqueIds(pr2, pr1, <<"SUBCATCHMENTS">>)) :
                     LET nren == _build_node_renames(pr1, pr2, g1, g2, nu1, nu2)
                         lren == _build_link_renames(pr1, pr2, g1, g2, nren, lu1, lu2)
                         sren == _build_sub_renames(pr1, pr2, g1, g2, su1, su2)
                     IN  /\ node_ren' = nren
                         /\ link_ren' = lren
                         /\ sub_ren' = sren
                         /\ pr2' = _apply_renames_to_pr2(pr2, nren, lren, sren)
                         /\ g2' = _apply_renames_to_geometry(g2, nren, lren, sren)
                         /\ renames' = BySec(pr1, nren, lren, sren)
               /\ pc' = "reconciled"
               /\ UNCHANGED <<rowvars, rptvars, idxvars>>
               /\ UNCHANGED <<progress_callback, payload1, payload2, pr1, g1, warnings, tolerances,
                              diffs, headers, out, err>>

\* all_headers of compare_sections, and headers[sec] of the force loop
AllHeaders(dfs, p1, p2) ==
    [sec \in DOMAIN dfs |-> EffectiveHeaders(p1.headers, p2.headers, sec)]

\* "4. Compare Sections"
CompareSections ==
    /\ pc = "reconciled"
    /\ \E r \in CallbackRaises(<<"40">> \o AllSecs(pr1.sections, pr2.sections)) :
          IF r # "" THEN CallbackAborts(r, <<"40">> \o AllSecs(pr1.sections, pr2.sections),
                                        AllSecs(pr1.sections, pr2.sections))
          ELSE /\ progress_log' = Reported(progress_log, <<"40">> \o AllSecs(pr1.sections, pr2.sections),
                                          r, AllSecs(pr1.sections, pr2.sections))
               /\ diffs' = compare_sections(pr1.sections, pr2.sections)
               /\ headers' = AllHeaders(diffs', pr1, pr2)
               /\ pc' = "compared"
               /\ UNCHANGED <<rowvars, rptvars, idxvars>>
               /\ UNCHANGED <<progress_callback, payload1, payload2, pr1, pr2, g1, g2, warnings, tolerances,
                              node_ren, link_ren, sub_ren, renames, out, err>>

\* "FORCE RENAMED ITEMS INTO CHANGED"
ForceRenames ==
    /\ pc = "compared"
    /\ diffs' = ForceRenamed(diffs, renames, pr1, pr2)
    /\ headers' = AllHeaders(diffs', pr1, pr2)
    /\ pc' = "forced"
    /\ UNCHANGED <<rowvars, rptvars, idxvars, progress_log>>
    /\ UNCHANGED <<progress_callback, payload1, payload2, pr1, pr2, g1, g2, warnings, tolerances,
                   node_ren, link_ren, sub_ren, renames, out, err>>

\* "Handle Tolerances" and "5. Filter by Tolerance": tolerances_py is an
\* argument of the call
Filter ==
    /\ pc = "forced"
    /\ \E r \in CallbackRaises(<<"90">>) :
          IF r # "" THEN CallbackAborts(r, <<"90">>,
                                        <<>>)
          ELSE /\ progress_log' = Reported(progress_log, <<"90">>,
                                          r, <<>>)
               /\ \E tol \in ToleranceInputs :
                     /\ tolerances' = tol
                     /\ diffs' = _filter_changes_by_tolerance(diffs, tol, renames)
               /\ pc' = "filtered"
               /\ UNCHANGED <<rowvars, rptvars, idxvars>>
               /\ UNCHANGED <<progress_callback, payload1, payload2, pr1, pr2, g1, g2, warnings,
                              node_ren, link_ren, sub_ren, renames, headers, out, err>>

\* 'INJECT "New Name" COLUMN', 'INJECT "Slope" COLUMN' and "6. Build Output"
BuildOutput ==
    /\ pc = "filtered"
    /\ \E r \in CallbackRaises(<<"95">>) :
          IF r # "" THEN CallbackAborts(r, <<"95">>,
                                        <<>>)
          ELSE /\ progress_log' = Reported(progress_log, <<"95">>,
                                          r, <<>>)
               /\ LET hdrs == OutHeaders(diffs, renames, pr1, pr2)
                      q1 == SlopeRows(pr1, diffs,
                                      IF "CONDUITS" \in DOMAIN diffs
                                      THEN diffs["CONDUITS"].removed ELSE {})
                      q2 == SlopeRows(pr2, diffs,
                                      IF "CONDUITS" \in DOMAIN diffs
                                      THEN diffs["CONDUITS"].added ELSE {})
                      dfs == SlopeChanged(diffs, q1, q2)
                  IN  /\ headers' = hdrs
                      /\ pr1' = q1
                      /\ pr2' = q2
                      /\ diffs' = dfs
                      /\ out' = [diffs |-> DiffsJson(dfs, hdrs, renames, q1, q2),
                                 headers |-> hdrs,
                                 renames |-> renames,
                                 sections1 |-> q1.sections,
                                 sections2 |-> q2.sections,
                                 warnings |-> warnings,
                                 tolerances |-> tolerances]
               /\ pc' = "done"
               /\ UNCHANGED <<rowvars, rptvars, idxvars>>
               /\ UNCHANGED <<progress_callback, payload1, payload2, g1, g2, warnings, tolerances,
                              node_ren, link_ren, sub_ren, renames, err>>

Next ==
    \/ ToText
    \/ ParseInp
    \/ ParseGeom
    \/ CheckInfiltration
    \/ Reconcile
    \/ CompareSections
    \/ ForceRenames
    \/ Filter
    \/ BuildOutput

Spec == Init /\ [][Next]_vars

-----------------------------------------------------------------------------
(* _calculate_slope and _calculate_field_diffs on CONDUITS rows of every   *)
(* shape: rows cut short after any field, with numeric and non-numeric     *)
(* Length, InOffset and OutOffset.                                         *)

LengthTokens == {"100", "0", "-5", "abc"}
InOffsetTokens == {"2", "abc"}
OutOffsetTokens == {"0", "0.5", "abc"}

\* the values of a CONDUITS row: FromNode, ToNode, then a prefix of
\* Length, Roughness, InOffset, OutOffset
ConduitRows ==
    {<<S("J1"), S("J2")>>}
    \cup {<<S("J1"), S("J2"), S(l)>> : l \in LengthTokens}
    \cup {<<S("J1"), S("J2"), S(l), S("0.01")>> : l \in LengthTokens}
    \cup {<<S("J1"), S("J2"), S(l), S("0.01"), S(i)>> :
            l \in LengthTokens, i \in InOffsetTokens}
    \cup {<<S("J1"), S("J2"), S(l), S("0.01"), S(i), S(o)>> :
            l \in LengthTokens, i \in InOffsetTokens, o \in OutOffsetTokens}

RowsInit ==
    /\ progress_callback = None
    /\ payload1 = TextPayload("str", <<>>)
    /\ payload2 = TextPayload("str", <<>>)
    /\ pc = "rows"
    /\ Fresh
    /\ row_old \in ConduitRows
    /\ row_new \in ConduitRows
    /\ row_slopes = <<>>
    /\ row_diffs = EmptyDict

\* the CHANGED loop of the Slope injection and the call of
\* _calculate_field_diffs for one changed CONDUITS item
FieldDiffs ==
    /\ pc = "rows"
    /\ row_slopes' = <<_calculate_slope(row_old), _calculate_slope(row_new)>>
    /\ row_diffs' = _calculate_field_diffs(row_old, row_new,
                                           SECTION_HEADERS("CONDUITS"), "CONDUITS")
    /\ pc' = "rows_done"
    /\ UNCHANGED <<row_old, row_new>>
    /\ UNCHANGED <<rptvars, idxvars, progress_log>>
    /\ UNCHANGED <<progress_callback, payload1, payload2, pr1, pr2, g1, g2, warnings, tolerances,
                   node_ren, link_ren, sub_ren, renames, diffs, headers, out, err>>

RowsNext == FieldDiffs

RowsSpec == RowsInit /\ [][RowsNext]_vars

-----------------------------------------------------------------------------
(* Properties of run_compare.                                              *)

\* the ids a result lists under added, removed or changed in section sec
IdsListed(d) == (DOMAIN d.added) \cup (DOMAIN d.removed) \cup (DOMAIN d.changed)

\* the run has returned its result
Returned == pc = "done"

\* the lines with every token a replaced by b
SubstId(lines, a, b) ==
    [i \in DOMAIN lines |->
        [lines[i] EXCEPT !.tok = [j \in DOMAIN @ |-> IF @[j] = a THEN b ELSE @[j]]]]

\* token t occurs in the lines
Occurs(lines, t) == \E i \in DOMAIN lines : \E j \in DOMAIN lines[i].tok : lines[i].tok[j] = t

\* C1 -- Idempotence: whenever run_compare(A, A) returns, no section of the
\* result lists an added, removed or changed id, and the rename map is
\* empty; the same holds for the diffs and renames of every earlier stage
\* of such a run.
C1_Idempotence ==
    payload1 = payload2 =>
        /\ renames = EmptyDict
        /\ node_ren = <<>> /\ link_ren = <<>> /\ sub_ren = <<>>
        /\ \A sec \in DOMAIN diffs :
              /\ diffs[sec].added = {}
              /\ diffs[sec].removed = {}
              /\ DOMAIN diffs[sec].changed = {}
        /\ out.renames = EmptyDict
        /\ \A sec \in DOMAIN out.diffs : IdsListed(out.diffs[sec]) = {}

\* a run of one text with nodes, links or subcatchments against itself has
\* returned
C1_Witness ==
    /\ Returned
    /\ payload1 = payload2
    /\ payload1.type = "str"
    /\ DOMAIN g1.nodes # {}
    /\ IdsOf(pr1, NodeSecs) # {}

\* file 2 is file 1 with node a called b, a node with coordinates that
\* file 1 does not mention under the name b
NodeRenamed(a, b) ==
    /\ payload1.type = "str" /\ payload2.type = "str"
    /\ Occurs(payload1.lines, a)
    /\ ~Occurs(payload1.lines, b)
    /\ payload2.lines = SubstId(payload1.lines, a, b)
    /\ a \in IdsOf(_parse_inp_iter(payload1.lines), <<"JUNCTIONS">>)
    /\ a \in DOMAIN _parse_geom_iter(payload1.lines).nodes

\* C2 -- Node rename: when file 2 is file 1 with node J1 called J2, the
\* result has renames["JUNCTIONS"] = {J1: J2} and no section of the diff,
\* COORDINATES included, lists J1 or J2 as added or removed.
C2_NodeRenameNoResidue ==
    (Returned /\ NodeRenamed("J1", "J2")) =>
        /\ "JUNCTIONS" \in DOMAIN out.renames
        /\ out.renames["JUNCTIONS"] = [k \in {"J1"} |-> "J2"]
        /\ \A sec \in DOMAIN out.diffs :
              {"J1", "J2"} \cap ((DOMAIN out.diffs[sec].added)
                                 \cup (DOMAIN out.diffs[sec].removed)) = {}

\* the junction row of id in a parse result, <<>> when there is none
JunctionRow(pr, id) == Get(Get(pr.sections, "JUNCTIONS", EmptyDict), id, <<>>)

\* J1 of file 1 is J2 of file 2: a junction at the same coordinate with
\* MaxDepth 10 in file 1 and 12 in file 2, each name used by one file only
J1BecomesJ2Deeper ==
    /\ payload1.type = "str" /\ payload2.type = "str"
    /\ LET a == _parse_inp_iter(payload1.lines)
           b == _parse_inp_iter(payload2.lines)
           geo1 == _parse_geom_iter(payload1.lines)
           geo2 == _parse_geom_iter(payload2.lines)
       IN  /\ geo1.error = "" /\ geo2.error = ""
           /\ "J1" \in IdsOf(a, <<"JUNCTIONS">>) /\ "J1" \notin IdsOf(b, NodeSecs)
           /\ "J2" \in IdsOf(b, <<"JUNCTIONS">>) /\ "J2" \notin IdsOf(a, NodeSecs)
           /\ Len(JunctionRow(a, "J1")) >= 2 /\ Len(JunctionRow(b, "J2")) >= 2
           /\ JunctionRow(a, "J1")[2] = S("10")
           /\ JunctionRow(b, "J2")[2] = S("12")
           /\ "J1" \in DOMAIN geo1.nodes /\ "J2" \in DOMAIN geo2.nodes
           /\ geo1.nodes["J1"] = geo2.nodes["J2"]

\* C3 -- Rename with a field change: for a junction that is J1 in file 1
\* and J2 in file 2 at one coordinate, with MaxDepth 10 and 12, the result
\* has renames["JUNCTIONS"] = {J1: J2}, lists the row as changed under J1
\* with diff_values["MaxDepth"] = 2 (new minus old), and JUNCTIONS lists
\* neither J1 nor J2 as added or removed.
C3_RenameWithFieldChange ==
    (Returned /\ J1BecomesJ2Deeper) =>
        /\ "JUNCTIONS" \in DOMAIN out.renames
        /\ "J1" \in DOMAIN out.renames["JUNCTIONS"]
        /\ out.renames["JUNCTIONS"]["J1"] = "J2"
        /\ "JUNCTIONS" \in DOMAIN out.diffs
        /\ "J1" \in DOMAIN out.diffs["JUNCTIONS"].changed
        /\ "MaxDepth" \in DOMAIN out.diffs["JUNCTIONS"].changed["J1"].diff_values
        /\ out.diffs["JUNCTIONS"].changed["J1"].diff_values["MaxDepth"] = RInt(2)
        /\ {"J1", "J2"} \cap ((DOMAIN out.diffs["JUNCTIONS"].added)
                              \cup (DOMAIN out.diffs["JUNCTIONS"].removed)) = {}

\* such a run has returned
C3_Witness == Returned /\ J1BecomesJ2Deeper

\* C4 -- In the result, for every section the id sets added, removed and
\* changed are pairwise disjoint.
C4_DisjointIdSets ==
    Returned =>
        \A sec \in DOMAIN out.diffs :
            /\ (DOMAIN out.diffs[sec].added) \cap (DOMAIN out.diffs[sec].removed) = {}
            /\ (DOMAIN out.diffs[sec].added) \cap (DOMAIN out.diffs[sec].changed) = {}
            /\ (DOMAIN out.diffs[sec].removed) \cap (DOMAIN out.diffs[sec].changed) = {}

\* the rows of a section of a document, the empty dict when it has none
RowsIn(pr, sec) == Get(pr.sections, sec, EmptyDict)

\* two field-value sequences differ as strings
RowsDiffer(r1, r2) ==
    \/ Len(r1) # Len(r2)
    \/ \E i \in DOMAIN r1 : r1[i] # r2[i]

\* C5 -- compare_sections: for every section present in either document,
\* added is exactly the ids only in doc2, removed exactly the ids only in
\* doc1, changed exactly the ids in both whose field-value sequences differ
\* as strings (with the two sequences as its value); a section with no
\* difference is absent from the result, and so is any other section.
C5_CompareSections ==
    pc = "compared" =>
        /\ DOMAIN diffs \subseteq (DOMAIN pr1.sections) \cup (DOMAIN pr2.sections)
        /\ \A sec \in (DOMAIN pr1.sections) \cup (DOMAIN pr2.sections) :
              LET ids1 == DOMAIN RowsIn(pr1, sec)
                  ids2 == DOMAIN RowsIn(pr2, sec)
                  differing == {k \in ids1 \cap ids2 :
                                  RowsDiffer(RowsIn(pr1, sec)[k], RowsIn(pr2, sec)[k])}
              IN  IF ids2 \ ids1 = {} /\ ids1 \ ids2 = {} /\ differing = {}
                  THEN sec \notin DOMAIN diffs
                  ELSE /\ sec \in DOMAIN diffs
                       /\ diffs[sec].added = ids2 \ ids1
                       /\ diffs[sec].removed = ids1 \ ids2
                       /\ DOMAIN diffs[sec].changed = differing
                       /\ \A k \in differing :
                             diffs[sec].changed[k] =
                                 <<RowsIn(pr1, sec)[k], RowsIn(pr2, sec)[k]>>

\* compare_sections has reported a junction changed whose rows differ as
\* strings only (100 against 100.0), next to an unchanged section
C5_Witness ==
    /\ pc = "compared"
    /\ "JUNCTIONS" \in DOMAIN diffs
    /\ "J1" \in DOMAIN diffs["JUNCTIONS"].changed
    /\ diffs["JUNCTIONS"].changed["J1"][1][1] = S("100")
    /\ diffs["JUNCTIONS"].changed["J1"][2][1] = S("100.0")
    /\ "CONDUITS" \in DOMAIN pr1.sections
    /\ "CONDUITS" \notin DOMAIN diffs

\* C6 -- Every rename old -> new reported in renames[sec] has old in
\* diffs[sec].changed in the result, and already after the tolerance
\* filter, whatever the fields of the row and the tolerances are.
C6_RenamedAlwaysChanged ==
    /\ pc \in {"forced", "filtered", "done"} =>
          \A sec \in DOMAIN renames : \A old \in DOMAIN renames[sec] :
              sec \in DOMAIN diffs /\ old \in DOMAIN diffs[sec].changed
    /\ Returned =>
          \A sec \in DOMAIN out.renames : \A old \in DOMAIN out.renames[sec] :
              sec \in DOMAIN out.diffs /\ old \in DOMAIN out.diffs[sec].changed

\* a result with a positive tolerance and a renamed row whose old and new
\* fields are equal
C6_Witness ==
    /\ Returned
    /\ \E k \in DOMAIN tolerances : RLt(RZero, tolerances[k])
    /\ \E sec \in DOMAIN out.renames : \E old \in DOMAIN out.renames[sec] :
          /\ old \in DOMAIN out.diffs[sec].changed
          /\ out.diffs[sec].changed[old].values[1] = out.diffs[sec].changed[old].values[2]
          /\ Len(out.diffs[sec].changed[old].values[1]) > 1

\* the name of the 0-based field i of a row of section sec, "" if unnamed
FieldName(sec, i) ==
    IF i + 2 \in DOMAIN SECTION_HEADERS(sec) THEN SECTION_HEADERS(sec)[i + 2] ELSE ""

\* the threshold configured for a field, zero when there is none
ThresholdFor(tol, sec, name) ==
    CASE sec = "CONDUITS" /\ name = "Length" -> Get(tol, "CONDUIT_LENGTH", RZero)
      [] sec = "CONDUITS" /\ name = "Roughness" -> Get(tol, "CONDUIT_ROUGHNESS", RZero)
      [] sec = "CONDUITS" /\ name \in {"InOffset", "OutOffset"} ->
            Get(tol, "CONDUIT_OFFSET", RZero)
      [] sec = "JUNCTIONS" /\ name = "InvertElev" -> Get(tol, "JUNCTION_INVERT", RZero)
      [] sec = "JUNCTIONS" /\ name = "MaxDepth" -> Get(tol, "JUNCTION_DEPTH", RZero)
      [] OTHER -> RZero

\* the 0-based positions where two field sequences differ; a field that
\* only one of them has differs
DifferingPositions(old, new) ==
    {i \in 0..((IF Len(old) > Len(new) THEN Len(old) ELSE Len(new)) - 1) :
        \/ i >= Len(old)
        \/ i >= Len(new)
        \/ old[i + 1] # new[i + 1]}

\* at position i both rows hold numbers no further apart than the positive
\* threshold of that field
WithinThreshold(tol, sec, old, new, i) ==
    /\ i < Len(old) /\ i < Len(new)
    /\ ~IsNone(ToFloat(old[i + 1])) /\ ~IsNone(ToFloat(new[i + 1]))
    /\ RLt(RZero, ThresholdFor(tol, sec, FieldName(sec, i)))
    /\ RLe(RAbs(RSub(Val(ToFloat(new[i + 1])), Val(ToFloat(old[i + 1])))),
           ThresholdFor(tol, sec, FieldName(sec, i)))

\* what the filter step may do to the diffs dfs, giving dfs2
FilterRespectsTolerance(dfs, dfs2, tol, ren) ==
    /\ DOMAIN dfs2 = DOMAIN dfs
    /\ \A sec \in DOMAIN dfs :
          /\ dfs2[sec].added = dfs[sec].added
          /\ dfs2[sec].removed = dfs[sec].removed
          /\ DOMAIN dfs2[sec].changed \subseteq DOMAIN dfs[sec].changed
          /\ \A id \in DOMAIN dfs[sec].changed :
                IF id \in DOMAIN dfs2[sec].changed
                THEN dfs2[sec].changed[id] = dfs[sec].changed[id]
                ELSE /\ ~(sec \in DOMAIN ren /\ id \in DOMAIN ren[sec])
                     /\ \E k \in DOMAIN tol : RLt(RZero, tol[k])
                     /\ \A i \in DifferingPositions(dfs[sec].changed[id][1],
                                                    dfs[sec].changed[id][2]) :
                           WithinThreshold(tol, sec, dfs[sec].changed[id][1],
                                           dfs[sec].changed[id][2], i)

\* the two files hold one CONDUITS row each under the id C1, differing only
\* in Length, 100.0 against 100.05
LengthOnlyExample ==
    /\ payload1.type = "str" /\ payload2.type = "str"
    /\ LET a == RowsIn(_parse_inp_iter(payload1.lines), "CONDUITS")
           b == RowsIn(_parse_inp_iter(payload2.lines), "CONDUITS")
       IN  /\ "C1" \in DOMAIN a /\ "C1" \in DOMAIN b
           /\ Len(a["C1"]) = Len(b["C1"]) /\ Len(a["C1"]) >= 3
           /\ a["C1"][3] = S("100.0") /\ b["C1"][3] = S("100.05")
           /\ \A i \in DOMAIN a["C1"] : i # 3 => a["C1"][i] = b["C1"][i]

\* the result for the example: dropped with CONDUIT_LENGTH = 0.1, kept with
\* 0.01 with the Length delta new minus old
ExampleResult ==
        /\ (Get(tolerances, "CONDUIT_LENGTH", RZero) = <<1, 10>>) =>
              ("CONDUITS" \in DOMAIN out.diffs =>
                  "C1" \notin DOMAIN out.diffs["CONDUITS"].changed)
        /\ (Get(tolerances, "CONDUIT_LENGTH", RZero) = <<1, 100>>) =>
              /\ "CONDUITS" \in DOMAIN out.diffs
              /\ "C1" \in DOMAIN out.diffs["CONDUITS"].changed
              /\ "Length" \in DOMAIN out.diffs["CONDUITS"].changed["C1"].diff_values
              /\ out.diffs["CONDUITS"].changed["C1"].diff_values["Length"]
                     = RSub(Val(StrToFloat("100.05")), Val(StrToFloat("100.0")))

\* C7 -- Tolerance filtering: the filter step leaves added and removed
\* alone and removes a row from changed only if the row is not renamed,
\* some threshold is positive and, at every position where the old and new
\* field sequences differ, both values are numbers within the positive
\* threshold configured for that field; a CONDUITS row differing only in
\* Length 100.0 vs 100.05 is dropped with CONDUIT_LENGTH = 0.1 and kept with
\* 0.01, with the Length delta new minus old.
C7_ToleranceFilter ==
    [][/\ (pc = "forced" /\ pc' = "filtered") =>
              FilterRespectsTolerance(diffs, diffs', tolerances', renames)
       /\ (pc' = "done" /\ LengthOnlyExample) => ExampleResult']_vars

\* C9 -- Malformed input is never fatal: for two text inputs and no
\* progress callback no stage of run_compare raises.
C9_NeverFatal ==
    (payload1.type = "str" /\ payload2.type = "str" /\ IsNone(progress_callback))
        => pc # "raised"

\* a payload that is neither text-like nor byte-like
InvalidPayload(p) == p.type \notin {"str", "bytes", "bytearray", "memoryview"}

\* C10 -- Invalid payload type: when a payload is neither text-like nor
\* byte-like, run_compare does not get past the conversion of its
\* payloads, and the error it raises names the offending type.
C10_InvalidPayloadFails ==
    (InvalidPayload(payload1) \/ InvalidPayload(payload2)) =>
        /\ pc \in {"start", "raised"}
        /\ pc = "raised" =>
              /\ err.kind = "TypeError"
              /\ err.detail \in {p.type : p \in {q \in {payload1, payload2} :
                                                    InvalidPayload(q)}}

-----------------------------------------------------------------------------
(* Properties of _calculate_slope and of the Slope delta.                  *)

\* the 0-based field i of a row as a number; None when the row has no such
\* field or the field is no number
NumberAt(row, i) == IF i < Len(row) THEN ToFloat(row[i + 1]) ELSE None

\* Length, InOffset and OutOffset of a CONDUITS row are all three present
\* and numeric
AllThreeNumeric(row) ==
    ~IsNone(NumberAt(row, 2)) /\ ~IsNone(NumberAt(row, 4)) /\ ~IsNone(NumberAt(row, 5))

\* the slope as stated: none unless all three inputs are numbers, 0 for
\* Length <= 0, else (InOffset - OutOffset) / Length
SlopeAsStated(row) ==
    IF ~AllThreeNumeric(row) THEN None
    ELSE IF RLe(Val(NumberAt(row, 2)), RZero) THEN Some(RZero)
    ELSE Some(RDiv(RSub(Val(NumberAt(row, 4)), Val(NumberAt(row, 5))),
                   Val(NumberAt(row, 2))))

OffsetOrZero(row, i) == IF i < Len(row) THEN ToFloat(row[i + 1]) ELSE Some(RZero)

\* the slope as amended
SlopeAmended(row) ==
    IF IsNone(NumberAt(row, 2)) THEN None
    ELSE IF RLe(Val(NumberAt(row, 2)), RZero) THEN Some(RZero)
    ELSE IF IsNone(OffsetOrZero(row, 4)) \/ IsNone(OffsetOrZero(row, 5)) THEN None
    ELSE Some(RDiv(RSub(Val(OffsetOrZero(row, 4)), Val(OffsetOrZero(row, 5))),
                   Val(NumberAt(row, 2))))

-----------------------------------------------------------------------------
(* Properties of the progress callback.                                    *)

\* C11 -- A progress callback that raises at a milestone does not abort the
\* pipeline: no run of run_compare ends with the exception of its callback.
C11_CallbackNeverAborts ==
    ~(pc = "raised" /\ err.kind = "CallbackError")

-----------------------------------------------------------------------------
(* run_compare on texts with a [CONTROLS] section.                         *)

\* the largest number of lines after the [CONTROLS] header of a text
MaxControlLines == 3

\* the lines a text may hold after its [CONTROLS] header
ControlLines ==
    {Row(<<"RULE", "R1">>),
     Spaced(Row(<<"rule", "R2", "b">>), 2, 1),
     Spaced(Row(<<"RULE">>), 0, 1),
     Row(<<"RULE">>),
     Spaced(Row(<<"IF", "A">>), 4, 2),
     Blank,
     Comment(<<"note">>),
     Hdr("JUNCTIONS"),
     Hdr("CONTROLS")}

ControlTexts ==
    {<<Hdr("CONTROLS")>> \o t :
        t \in UNION {[1..n -> ControlLines] : n \in 1..MaxControlLines}}

ControlsInit ==
    /\ progress_callback = None
    /\ payload1 \in {TextPayload("str", t) : t \in ControlTexts}
    /\ payload2 \in {TextPayload("str", <<>>),
                     TextPayload("str", <<Hdr("CONTROLS"), Row(<<"RULE", "R1">>),
                                          Row(<<"IF", "A">>)>>)}
    /\ pc = "start"
    /\ Fresh
    /\ row_old = <<>> /\ row_new = <<>>
    /\ row_slopes = <<>> /\ row_diffs = EmptyDict

ControlsSpec == ControlsInit /\ [][Next]_vars

\* the section a line of a text belongs to: the name of the last header
\* before it, "" when there is none
SectionAt(lines, i) ==
    IF \E j \in 1..(i - 1) : lines[j].hdr # ""
    THEN lines[CHOOSE j \in 1..(i - 1) :
                   /\ lines[j].hdr # ""
                   /\ \A k \in (j + 1)..(i - 1) : lines[k].hdr = ""].hdr
    ELSE ""

\* the lines of a rule opened at line i: up to the next line that opens a
\* rule or a section, or to the end of the text
RuleBlock(lines, i, Opens(_)) ==
    LET stops == {j \in (i + 1)..Len(lines) : lines[j].hdr # "" \/ Opens(lines[j])}
        end == IF stops = {} THEN Len(lines) + 1
               ELSE CHOOSE j \in stops : \A k \in stops : j <= k
    IN  [n \in 1..(end - i) |-> lines[i + n - 1]]

\* a rule text with its blank lines at the end and the blanks around it
\* trimmed away
Trimmed(block) ==
    LET last == CHOOSE n \in DOMAIN block :
                    /\ ~IsBlank(block[n])
                    /\ \A m \in (n + 1)..Len(block) : IsBlank(block[m])
    IN  [i \in 1..last |->
            [block[i] EXCEPT !.ind = IF i = 1 THEN 0 ELSE @,
                             !.trl = IF i = last THEN 0 ELSE @]]

\* the CONTROLS section of a text whose rule lines are those satisfying
\* Opens, keyed by KeyOf: one element per key, the text of the last rule
\* opened under it
RulesOf(lines, Opens(_), KeyOf(_)) ==
    LET openers == {i \in DOMAIN lines :
                       SectionAt(lines, i) = "CONTROLS" /\ Opens(lines[i])}
        lastOf(k) == CHOOSE i \in openers :
                         KeyOf(i) = k /\ \A j \in openers : KeyOf(j) = k => j <= i
    IN  [k \in {KeyOf(i) : i \in openers} |->
            <<[text |-> Trimmed(RuleBlock(lines, lastOf(k), Opens))]>>]

\* a rule line as stated: trimmed, it starts with "RULE " whatever the case
OpensAsStated(line) ==
    /\ line.hdr = "" /\ line.cmt = "" /\ Len(line.tok) >= 2
    /\ Upper(line.tok[1]) = "RULE"

RulesAsStated(lines) ==
    LET key(i) == JoinStr(lines[i].tok, 2)
    IN  RulesOf(lines, OpensAsStated, key)

\* the parse of both texts has happened
BothParsed == pc \notin {"start", "text", "raised"}

RECURSIVE RuleKey(_, _)
RuleKey(lines, i) ==
    IF Len(lines[i].tok) >= 2 THEN JoinStr(lines[i].tok, 2)
    ELSE "RULE_" \o IntStr(Cardinality(
             {RuleKey(lines, j) : j \in {n \in 1..(i - 1) :
                 SectionAt(lines, n) = "CONTROLS" /\ StartsWithRule(lines[n])}}))

RulesAmended(lines) ==
    LET key(i) == RuleKey(lines, i)
    IN  RulesOf(lines, StartsWithRule, key)

-----------------------------------------------------------------------------
(* Properties of the infiltration check.                                   *)

\* the data lines of section sec of a text
DataLines(lines, sec) ==
    {i \in DOMAIN lines : /\ SectionAt(lines, i) = sec
                          /\ lines[i].hdr = "" /\ lines[i].cmt = ""
                          /\ lines[i].tok # <<>>}

\* the infiltration method a text names under OPTIONS, HORTON when it
\* names none
MethodOf(lines) ==
    LET named == {i \in DataLines(lines, "OPTIONS") : lines[i].tok[1] = "INFILTRATION"}
        last == CHOOSE i \in named : \A j \in named : j <= i
    IN  IF named = {} THEN "HORTON"
        ELSE IF Len(lines[last].tok) >= 2 THEN UpperStrip(S(lines[last].tok[2]))
        ELSE ""

\* the ids under which a result lists rows of a section
IdsOfSection(sections, sec) == DOMAIN Get(sections, sec, EmptyDict)

\* the result reports exactly the added and removed ids of section sec
AddedRemovedReported(sec) ==
    LET a == IdsOfSection(out.sections1, sec)
        b == IdsOfSection(out.sections2, sec)
    IN  (a # b) =>
            /\ sec \in DOMAIN out.diffs
            /\ DOMAIN out.diffs[sec].added = b \ a
            /\ DOMAIN out.diffs[sec].removed = a \ b

\* C13 -- Infiltration mismatch: when the OPTIONS INFILTRATION methods of
\* the two files differ (an absent option counting as HORTON) the result
\* carries a warning for INFILTRATION, its INFILTRATION section is empty on
\* both sides and no INFILTRATION diff is reported, while the other
\* sections are compared; when the methods are equal there is no warning
\* and INFILTRATION is compared like any section.
C13_InfiltrationMismatch ==
    (Returned /\ payload1.type = "str" /\ payload2.type = "str") =>
        IF MethodOf(payload1.lines) # MethodOf(payload2.lines)
        THEN /\ "INFILTRATION" \in DOMAIN out.warnings
             /\ IdsOfSection(out.sections1, "INFILTRATION") = {}
             /\ IdsOfSection(out.sections2, "INFILTRATION") = {}
             /\ "INFILTRATION" \notin DOMAIN out.diffs
             /\ \A sec \in ((DOMAIN out.sections1) \cup (DOMAIN out.sections2))
                               \ {"INFILTRATION"} : AddedRemovedReported(sec)
        ELSE /\ out.warnings = EmptyDict
             /\ IdsOfSection(out.sections1, "INFILTRATION")
                    = {payload1.lines[i].tok[1] : i \in DataLines(payload1.lines, "INFILTRATION")}
             /\ AddedRemovedReported("INFILTRATION")
             /\ \A k \in IdsOfSection(out.sections1, "INFILTRATION")
                           \cap IdsOfSection(out.sections2, "INFILTRATION") :
                    (out.sections1["INFILTRATION"][k] # out.sections2["INFILTRATION"][k])
                        => /\ "INFILTRATION" \in DOMAIN out.diffs
                           /\ k \in DOMAIN out.diffs["INFILTRATION"].changed

\* a run of a GREEN_AMPT file with INFILTRATION rows against a file that
\* names no method and has INFILTRATION rows and subcatchments has
\* returned with the warning
C13_Witness ==
    /\ Returned
    /\ payload1.type = "str" /\ payload2.type = "str"
    /\ MethodOf(payload1.lines) = "GREEN_AMPT"
    /\ MethodOf(payload2.lines) = "HORTON"
    /\ DataLines(payload1.lines, "INFILTRATION") # {}
    /\ DataLines(payload2.lines, "INFILTRATION") # {}
    /\ "INFILTRATION" \in DOMAIN out.warnings
    /\ "SUBCATCHMENTS" \in DOMAIN out.diffs

-----------------------------------------------------------------------------
(* core_results.py: the report (.RPT) table parser and comparator.  A line *)
(* of a report is a record [kind |-> "dash" (RE_DASH matches), "stars"     *)
(* (RE_STARS matches), "blank" or "text", tok |-> line.split()].  A value  *)
(* of a row is a str, written [s |-> text].                                *)

NA == "NA"
ABS_TOL == <<1, 1000000>>
REL_TOL == <<1, 1000000>>

\* SECTION_SPECS[section_name], for the tables of the model
SECTION_SPECS(section_name) ==
    CASE section_name = "Node Depth Summary" ->
            [id_col |-> "Node",
             columns |-> <<"Node", "Type", "Average Depth feet",
                           "Maximum Depth feet", "Maximum HGL feet",
                           "Time of Max Occurrence", "Reported Max Depth feet">>,
             schema |-> <<"str", "str", "num", "num", "num", "time", "num">>]
      [] section_name = "Outfall Loading Summary" ->
            [id_col |-> "Outfall",
             columns |-> <<"Outfall", "Flow Frequency", "Avg Flow CFS",
                           "Max Flow CFS", "Total Volume 10^6 gal">>,
             schema |-> <<"str", "str", "num", "num", "num">>]

\* METRIC_CONFIG.get(section_name): <<src_col, mode, dest_col>>
METRIC_CONFIG(section_name) ==
    CASE section_name = "Node Depth Summary" ->
            Some(<<"Reported Max Depth feet", "abs", "Diff Max Depth">>)
      [] section_name = "Outfall Loading Summary" ->
            Some(<<"Total Volume 10^6 gal", "pct", "% Diff Total Volume">>)
      [] OTHER -> None

\* as_number(s): the float of a value, None when it is no number
as_number(v) ==
    CASE v.s \in {"", "-", "nan", "NaN", "NA"} -> None
      [] v.s = "50%" -> Some(<<50, 1>>)
      [] v.s = "1,000" -> Some(<<1000, 1>>)
      [] OTHER -> StrToFloat(v.s)

\* expected_token_count(schema)
RECURSIVE expected_token_count(_)
expected_token_count(schema) ==
    IF schema = <<>> THEN 0
    ELSE (IF Head(schema) = "time" THEN 2 ELSE 1) + expected_token_count(Tail(schema))

\* the loop of parse_row_by_schema from column k on, i being the 0-based
\* index of the next token
RECURSIVE RowBySchema(_, _, _, _, _, _)
RowBySchema(tokens, columns, schema, k, i, acc) ==
    IF k > Len(columns) \/ k > Len(schema) THEN acc
    ELSE IF schema[k] = "time"
    THEN RowBySchema(tokens, columns, schema, k + 1, i + 2,
             Put(acc, columns[k],
                 IF i + 1 < Len(tokens) THEN S(tokens[i + 1] \o " " \o tokens[i + 2])
                 ELSE IF i < Len(tokens) THEN S(tokens[i + 1])
                 ELSE S("")))
    ELSE RowBySchema(tokens, columns, schema, k + 1, i + 1,
             Put(acc, columns[k], IF i < Len(tokens) THEN S(tokens[i + 1]) ELSE S("")))

\* a time column consuming one token only
parse_row_one_token_time(tokens, columns, schema) ==
    [c \in Range(columns) |->
        LET k == CHOOSE n \in DOMAIN columns : columns[n] = c
        IN  IF k <= Len(tokens) THEN S(tokens[k]) ELSE S("")]

\* parse_row_by_schema(tokens, columns, schema) -> Dict[str, str]
parse_row_by_schema(tokens, columns, schema) ==
    RowBySchema(tokens, columns, schema, 1, 0, EmptyDict)

\* the index of the first dash line at or after position from, Len + 1
\* when there is none
RECURSIVE NextDash(_, _)
NextDash(section_lines, from) ==
    IF from > Len(section_lines) THEN from
    ELSE IF section_lines[from].kind = "dash" THEN from
    ELSE NextDash(section_lines, from + 1)

\* a variant of the data loop that ends at a divider line too
RECURSIVE TableRows_to_divider(_, _, _)
TableRows_to_divider(ps, section_lines, k) ==
    IF k > Len(section_lines) THEN ps
    ELSE LET line == section_lines[k]
             tokens == line.tok
             exp == expected_token_count(ps.schema)
             row == parse_row_by_schema(tokens, ps.columns, ps.schema)
             rid == row[ps.id_col].s
             logged == IF Len(tokens) # exp
                       THEN [ps EXCEPT !.meta.unparsed_rows =
                                Append(@, [tokens |-> tokens, expected_tokens |-> exp,
                                           actual_tokens |-> Len(tokens)])]
                       ELSE ps
         IN  IF line.kind \in {"blank", "stars", "dash"} THEN ps
             ELSE IF Len(tokens) < 2 THEN TableRows_to_divider(ps, section_lines, k + 1)
             ELSE IF rid # ""
             THEN TableRows_to_divider([logged EXCEPT !.rows = Put(@, rid, row),
                                           !.row_order = Append(@, rid)],
                            section_lines, k + 1)
             ELSE TableRows_to_divider(logged, section_lines, k + 1)

\* the data loop of parse_table_section from line k on
RECURSIVE TableRows(_, _, _)
TableRows(ps, section_lines, k) ==
    IF k > Len(section_lines) THEN ps
    ELSE LET line == section_lines[k]
             tokens == line.tok
             exp == expected_token_count(ps.schema)
             row == parse_row_by_schema(tokens, ps.columns, ps.schema)
             rid == row[ps.id_col].s
             logged == IF Len(tokens) # exp
                       THEN [ps EXCEPT !.meta.unparsed_rows =
                                Append(@, [tokens |-> tokens, expected_tokens |-> exp,
                                           actual_tokens |-> Len(tokens)])]
                       ELSE ps
         IN  IF line.kind \in {"blank", "stars"} THEN ps
             ELSE IF line.kind = "dash" THEN TableRows(ps, section_lines, k + 1)
             ELSE IF Len(tokens) < 2 THEN TableRows(ps, section_lines, k + 1)
             ELSE IF rid # ""
             THEN TableRows([logged EXCEPT !.rows = Put(@, rid, row),
                                           !.row_order = Append(@, rid)],
                            section_lines, k + 1)
             ELSE TableRows(logged, section_lines, k + 1)

\* parse_table_section(section_name, section_lines) -> ParsedSection
parse_table_section(section_name, section_lines) ==
    LET spec == SECTION_SPECS(section_name)
        ps == [name |-> section_name, id_col |-> spec.id_col,
               columns |-> spec.columns, schema |-> spec.schema,
               rows |-> EmptyDict, row_order |-> <<>>,
               meta |-> [unparsed_rows |-> <<>>, row_count |-> None,
                         expected_tokens_per_row |-> None]]
        i == NextDash(section_lines, 1)
        j == NextDash(section_lines, i + 1)
        done == TableRows(ps, section_lines, j + 1)
    IN  IF i > Len(section_lines) \/ j > Len(section_lines) THEN ps
        ELSE [done EXCEPT !.meta.row_count = Some(Len(done.row_order)),
                          !.meta.expected_tokens_per_row =
                              Some(expected_token_count(spec.schema))]

\* the first k decimal digits of r / d (r < d), as <<digits, remainder>>
RECURSIVE Decimals(_, _, _, _)
Decimals(r, d, k, acc) ==
    IF k = 0 THEN <<acc, r>>
    ELSE Decimals((r * 10) % d, d, k - 1, acc * 10 + (r * 10) \div d)

\* round(q, digits) of the "%.<digits>f" formats, as a rational
RoundDigits(q, digits) ==
    LET scale == IF digits = 4 THEN 10000 ELSE 100
        a == Abs(q[1])
        dec == Decimals(a % q[2], q[2], digits, 0)
        n == (a \div q[2]) * scale + dec[1] + (IF 2 * dec[2] >= q[2] THEN 1 ELSE 0)
    IN  Rat(IF q[1] < 0 THEN -n ELSE n, scale)

\* str(v).strip() == str(w).strip() only
values_equal_as_strings(va, vb) == va = vb

\* values_equal(va, vb); diff <= tol is compared with both sides times
\* 10^6, which keeps the products of the comparison within 32 bits
values_equal(va, vb) ==
    LET na == as_number(va)
        nb == as_number(vb)
        mega == <<1000000, 1>>
    IN  IF ~IsNone(na) /\ ~IsNone(nb)
        THEN LET diff == RAbs(RSub(Val(na), Val(nb)))
                 tol_mega == RMaxOf(RMul(ABS_TOL, mega),
                                    RMul(RMul(REL_TOL, mega),
                                         RMaxOf(RAbs(Val(na)), RAbs(Val(nb)))))
             IN  RLe(RMul(diff, mega), tol_mega)
        ELSE va = vb

\* the ids of the model's tables in sorted() order
SortedIds == <<"J1", "J2", "J3", "O1", "O2">>

\* sorted(ids) as a list
RECURSIVE SortIds(_, _)
SortIds(ids, k) ==
    IF k > Len(SortedIds) THEN <<>>
    ELSE (IF SortedIds[k] \in ids THEN <<SortedIds[k]>> ELSE <<>>) \o SortIds(ids, k + 1)

\* abs(val) > 1e-9, with the product kept within 32 bits
AboveTiny(val) == Abs(val[1]) >= 3 \/ Abs(val[1]) * 1000000000 > val[2]

\* "Compute Metric if configured": the computed column of one row
MetricValue(metric_cfg, ra, rb) ==
    LET src_col == metric_cfg[1]
        mode == metric_cfg[2]
        num(r) == IF IsNone(r) THEN RZero
                  ELSE IF IsNone(as_number(Get(Val(r), src_col, S(NA)))) THEN RZero
                  ELSE Val(as_number(Get(Val(r), src_col, S(NA))))
        val_a == num(ra)
        val_b == num(rb)
    IN  IF mode = "abs" THEN [fmt4 |-> RoundDigits(RSub(val_b, val_a), 4)]
        ELSE IF AboveTiny(val_a)
        THEN [fmt2 |-> RoundDigits(RMul(RDiv(RSub(val_b, val_a), RAbs(val_a)),
                                        RInt(100)), 2)]
        ELSE IF AboveTiny(val_b) THEN S("100.00")
        ELSE S("0.00")

\* build_section_side_by_side(sa, sb, section_name) -> SectionSideBySide
build_section_side_by_side(sa, sb, section_name) ==
    LET spec == IF ~IsNone(sa) THEN Val(sa)
                ELSE IF ~IsNone(sb) THEN Val(sb)
                ELSE SECTION_SPECS(section_name)
        id_col == spec.id_col
        cols == spec.columns
        base_cols == {c \in Range(cols) : c # id_col}
        metric_cfg == METRIC_CONFIG(section_name)
        rows_a == IF ~IsNone(sa) THEN Val(sa).rows ELSE EmptyDict
        rows_b == IF ~IsNone(sb) THEN Val(sb).rows ELSE EmptyDict
        ids == SortIds((DOMAIN rows_a) \cup (DOMAIN rows_b), 1)
        ra(rid) == IF rid \in DOMAIN rows_a THEN Some(rows_a[rid]) ELSE None
        rb(rid) == IF rid \in DOMAIN rows_b THEN Some(rows_b[rid]) ELSE None
        va(rid, c) == IF IsNone(ra(rid)) THEN S(NA) ELSE Get(Val(ra(rid)), c, S(NA))
        vb(rid, c) == IF IsNone(rb(rid)) THEN S(NA) ELSE Get(Val(rb(rid)), c, S(NA))
        status(rid) ==
            IF IsNone(ra(rid)) /\ ~IsNone(rb(rid)) THEN "ONLY_IN_B"
            ELSE IF IsNone(rb(rid)) /\ ~IsNone(ra(rid)) THEN "ONLY_IN_A"
            ELSE IF \E c \in base_cols : ~values_equal(va(rid, c), vb(rid, c))
            THEN "CHANGED" ELSE "SAME"
        keys == {id_col, "Status"}
                \cup {c \o " (A)" : c \in base_cols} \cup {c \o " (B)" : c \in base_cols}
                \cup (IF IsNone(metric_cfg) THEN {} ELSE {Val(metric_cfg)[3]})
        row_out(rid) ==
            [k \in keys |->
                IF k = id_col THEN S(rid)
                ELSE IF k = "Status" THEN S(status(rid))
                ELSE IF \E c \in base_cols : k = c \o " (A)"
                THEN va(rid, CHOOSE c \in base_cols : k = c \o " (A)")
                ELSE IF \E c \in base_cols : k = c \o " (B)"
                THEN vb(rid, CHOOSE c \in base_cols : k = c \o " (B)")
                ELSE MetricValue(Val(metric_cfg), ra(rid), rb(rid))]
        out_rows == [n \in DOMAIN ids |-> row_out(ids[n])]
        count(st) == Cardinality({n \in DOMAIN out_rows : out_rows[n]["Status"] = S(st)})
    IN  [section |-> section_name,
         id_col |-> id_col,
         rows |-> out_rows,
         meta |-> [row_count |-> Len(out_rows),
                   only_in_a |-> count("ONLY_IN_A"),
                   only_in_b |-> count("ONLY_IN_B"),
                   changed |-> count("CHANGED"),
                   same |-> count("SAME")]]

\* the largest number of data rows of one table
MaxRptRows == 2

\* the lines of a table: a title line, the two dividers around the column
\* header, the data rows and a blank line
Text(tokens) == [kind |-> "text", tok |-> tokens]
Dash == [kind |-> "dash", tok |-> <<"-----">>]
Table(rows) ==
    <<Text(<<"Node", "Type">>), Dash, Text(<<"Node", "Type">>), Dash>> \o rows
        \o <<[kind |-> "blank", tok |-> <<>>]>>

\* the data rows of the model's tables, by section
RptRows(section_name) ==
    IF section_name = "Node Depth Summary"
    THEN {Text(<<"J1", "JUNCTION", "1.0", "2.0", "3.0", "0", "11:55", "2.5">>),
          Text(<<"J1", "JUNCTION", "1.0", "2.0", "3.0", "0", "11:55", "2.50">>),
          Text(<<"J1", "JUNCTION", "1.0", "2.0", "3.0", "0", "11:55", "2.5000005">>),
          Text(<<"J2", "JUNCTION", "1.0", "2.0", "3.0", "0", "11:56", "2.6">>),
          Text(<<"J2", "JUNCTION", "1.0", "2.0", "3.0", "0", "11:55">>),
          Text(<<"J2", "JUNCTION", "1.0", "2.0", "3.0", "0">>),
          Text(<<"J3", "OUTFALL", "NA", "2.0">>),
          Text(<<"J3">>)}
    ELSE {Text(<<"O1", "50%", "1.0", "2.0", "1,000">>),
          Text(<<"O1", "50%", "1.0", "2.0", "0">>),
          Text(<<"O2", "-", "0", "0", "0">>)}

RptTables(section_name) ==
    {None} \cup {Some(Table(rows)) :
                    rows \in UNION {[1..n -> RptRows(section_name)] : n \in 0..MaxRptRows}}

RptInit ==
    /\ progress_callback = None
    /\ payload1 = TextPayload("str", <<>>)
    /\ payload2 = TextPayload("str", <<>>)
    /\ pc = "rpt"
    /\ FreshRun
    /\ row_old = <<>> /\ row_new = <<>>
    /\ row_slopes = <<>> /\ row_diffs = EmptyDict
    /\ rpt_name \in {"Node Depth Summary", "Outfall Loading Summary"}
    /\ rpt_a \in RptTables(rpt_name)
    /\ rpt_b \in RptTables(rpt_name)
    /\ ~(IsNone(rpt_a) /\ IsNone(rpt_b))
    /\ sec_a = None /\ sec_b = None /\ side = None
    /\ NoIndex

\* parse_swmm_rpt: res.sections[title] = parse_table_section(title, ...)
ParseTables ==
    /\ pc = "rpt"
    /\ sec_a' = IF IsNone(rpt_a) THEN None
                ELSE Some(parse_table_section(rpt_name, Val(rpt_a)))
    /\ sec_b' = IF IsNone(rpt_b) THEN None
                ELSE Some(parse_table_section(rpt_name, Val(rpt_b)))
    /\ pc' = "rpt_parsed"
    /\ UNCHANGED <<rpt_name, rpt_a, rpt_b, side>>
    /\ UNCHANGED <<rowvars, idxvars, progress_log>>
    /\ UNCHANGED <<progress_callback, payload1, payload2, pr1, pr2, g1, g2,
                   warnings, tolerances, node_ren, link_ren, sub_ren, renames,
                   diffs, headers, out, err>>

\* build_side_by_side: one build_section_side_by_side per section
BuildSideBySide ==
    /\ pc = "rpt_parsed"
    /\ side' = Some(build_section_side_by_side(sec_a, sec_b, rpt_name))
    /\ pc' = "rpt_done"
    /\ UNCHANGED <<rpt_name, rpt_a, rpt_b, sec_a, sec_b>>
    /\ UNCHANGED <<rowvars, idxvars, progress_log>>
    /\ UNCHANGED <<progress_callback, payload1, payload2, pr1, pr2, g1, g2,
                   warnings, tolerances, node_ren, link_ren, sub_ren, renames,
                   diffs, headers, out, err>>

RptNext == ParseTables \/ BuildSideBySide

RptSpec == RptInit /\ [][RptNext]_vars

-----------------------------------------------------------------------------
(* Properties of the report parser and comparator.                         *)

\* the 1-based position of the first token of column k: one token for
\* every column before it and one more for every time column before it
TokenPos(schema, k) ==
    k + Cardinality({m \in 1..(k - 1) : schema[m] = "time"})

\* the text of column k of a row: its token, its two tokens joined by one
\* blank for a time column (the one that is left when only one is left),
\* the empty string when the tokens have run out
ColumnText(tokens, schema, k) ==
    LET p == TokenPos(schema, k)
    IN  IF p > Len(tokens) THEN ""
        ELSE IF schema[k] = "time" /\ p + 1 <= Len(tokens)
        THEN tokens[p] \o " " \o tokens[p + 1]
        ELSE tokens[p]

\* the data line that gives the row of id rid its values: the last data
\* line of the table with that id
LastLineOf(lines, rid) ==
    CHOOSE i \in DOMAIN lines :
        /\ lines[i].kind = "text" /\ i > 4 /\ Len(lines[i].tok) >= 2
        /\ lines[i].tok[1] = rid
        /\ \A j \in (i + 1)..Len(lines) :
              ~(lines[j].kind = "text" /\ Len(lines[j].tok) >= 2 /\ lines[j].tok[1] = rid)

\* every row of the parsed table holds every declared column, as Value
\* gives it from the tokens of its line
RowsMapped(table, sec, Value(_, _, _)) ==
    (~IsNone(table)) =>
        \A rid \in DOMAIN Val(sec).rows :
            LET tokens == Val(table)[LastLineOf(Val(table), rid)].tok
                schema == Val(sec).schema
                columns == Val(sec).columns
            IN  /\ DOMAIN Val(sec).rows[rid] = Range(columns)
                /\ \A k \in DOMAIN columns :
                      Val(sec).rows[rid][columns[k]] = Value(tokens, schema, k)

\* the value of column k as stated: the float of its token for a numeric
\* column whose token is a number, else its text
ValueAsStated(tokens, schema, k) ==
    IF schema[k] = "num" /\ ~IsNone(StrToFloat(ColumnText(tokens, schema, k)))
    THEN [f |-> Val(StrToFloat(ColumnText(tokens, schema, k)))]
    ELSE S(ColumnText(tokens, schema, k))

\* C14 (as stated) -- parse_row_by_schema maps the tokens to the declared
\* columns left to right, a time column taking two tokens joined by one
\* blank and every other column one token; every declared column is in the
\* row even when the tokens run out, and every declared numeric column is
\* parsed as a float.
C14_RowBySchemaAsStated ==
    pc \in {"rpt_parsed", "rpt_done"} =>
        /\ RowsMapped(rpt_a, sec_a, ValueAsStated)
        /\ RowsMapped(rpt_b, sec_b, ValueAsStated)

\* the value of column k as amended: always the text
ValueAmended(tokens, schema, k) == S(ColumnText(tokens, schema, k))

\* C14 (amended) -- as stated, but every column, the numeric ones
\* included, holds the text of its token (a time column the one token that
\* is left when only one is left); the float of a numeric column is what
\* as_number makes of that text.
C14_RowBySchemaAmended ==
    pc \in {"rpt_parsed", "rpt_done"} =>
        /\ RowsMapped(rpt_a, sec_a, ValueAmended)
        /\ RowsMapped(rpt_b, sec_b, ValueAmended)

\* the row J1 JUNCTION 1.0 2.0 3.0 0 11:55 2.5 of a Node Depth Summary has
\* been parsed next to a row whose tokens run out
C14_Witness ==
    /\ pc = "rpt_parsed"
    /\ rpt_name = "Node Depth Summary"
    /\ rpt_a = Some(Table(<<Text(<<"J1", "JUNCTION", "1.0", "2.0", "3.0", "0", "11:55", "2.5">>),
                            Text(<<"J2", "JUNCTION", "1.0", "2.0", "3.0", "0">>)>>))
    /\ Val(sec_a).rows["J1"]["Time of Max Occurrence"] = S("0 11:55")
    /\ as_number(Val(sec_a).rows["J1"]["Reported Max Depth feet"]) = Some(<<5, 2>>)
    /\ as_number(Val(sec_a).rows["J1"]["Average Depth feet"]) = Some(<<1, 1>>)
    /\ Val(sec_a).rows["J2"]["Time of Max Occurrence"] = S("0")
    /\ Val(sec_a).rows["J2"]["Reported Max Depth feet"] = S("")


-----------------------------------------------------------------------------
(* The side-by-side result of one section.                                 *)

\* the rows of a parsed section, none when the report has no such section
RowsOfSection(sec) == IF IsNone(sec) THEN EmptyDict ELSE Val(sec).rows

\* two values are equal: within max(ABS_TOL, REL_TOL * max(|a|, |b|)) when
\* both are numbers, as strings otherwise (a token of a report line has no
\* blank at either end)
EqualValues(va, vb) ==
    LET na == as_number(va)
        nb == as_number(vb)
    IN  IF IsNone(na) \/ IsNone(nb) THEN va.s = vb.s
        ELSE LET a == Val(na)
                 b == Val(nb)
                 big == IF RLe(RAbs(a), RAbs(b)) THEN RAbs(b) ELSE RAbs(a)
                 \* the difference and the larger magnitude in millionths
                 diff_micro == RMul(RAbs(RSub(a, b)), RInt(1000000))
             IN  \/ RLe(diff_micro, RInt(1))
                 \/ RLe(diff_micro, big)

\* the status of the id rid as the two parsed sections give it
StatusOf(rows_a, rows_b, id_col, rid) ==
    IF rid \notin DOMAIN rows_a THEN "ONLY_IN_B"
    ELSE IF rid \notin DOMAIN rows_b THEN "ONLY_IN_A"
    ELSE IF \A c \in (DOMAIN rows_a[rid]) \ {id_col} :
                EqualValues(rows_a[rid][c], rows_b[rid][c])
    THEN "SAME" ELSE "CHANGED"

\* C15 -- the side-by-side result of a section has exactly one row per id
\* of the union of the two reports' row ids; the row is ONLY_IN_A iff the
\* id is in report A only, ONLY_IN_B iff in B only, SAME iff it is in both
\* and every non-id column is equal (within tolerance when both values are
\* numbers, as strings otherwise), CHANGED otherwise; the four counts of
\* meta are the numbers of rows of each status and sum to row_count.
C15_SideBySideRows ==
    pc = "rpt_done" =>
        LET res == Val(side)
            rows_a == RowsOfSection(sec_a)
            rows_b == RowsOfSection(sec_b)
            ids == (DOMAIN rows_a) \cup (DOMAIN rows_b)
            n_of(st) == Cardinality({n \in DOMAIN res.rows : res.rows[n]["Status"].s = st})
        IN  /\ Len(res.rows) = Cardinality(ids)
            /\ {res.rows[n][res.id_col].s : n \in DOMAIN res.rows} = ids
            /\ \A n \in DOMAIN res.rows :
                  res.rows[n]["Status"].s =
                      StatusOf(rows_a, rows_b, res.id_col, res.rows[n][res.id_col].s)
            /\ res.meta.only_in_a = n_of("ONLY_IN_A")
            /\ res.meta.only_in_b = n_of("ONLY_IN_B")
            /\ res.meta.changed = n_of("CHANGED")
            /\ res.meta.same = n_of("SAME")
            /\ res.meta.row_count = Len(res.rows)
            /\ res.meta.only_in_a + res.meta.only_in_b + res.meta.changed + res.meta.same
                   = res.meta.row_count

\* J1 is in both reports with 2.5 against 2.50 and is SAME, J2 is in report
\* A only and J3 in report B only
C15_Witness ==
    /\ pc = "rpt_done"
    /\ rpt_name = "Node Depth Summary"
    /\ ~IsNone(sec_a) /\ ~IsNone(sec_b)
    /\ DOMAIN Val(sec_a).rows = {"J1", "J2"}
    /\ DOMAIN Val(sec_b).rows = {"J1", "J3"}
    /\ Val(sec_a).rows["J1"]["Reported Max Depth feet"] = S("2.5")
    /\ Val(sec_b).rows["J1"]["Reported Max Depth feet"] = S("2.50")
    /\ Len(Val(side).rows) = 3
    /\ Val(side).rows[1]["Status"] = S("SAME")
    /\ Val(side).rows[2]["Status"] = S("ONLY_IN_A")
    /\ Val(side).rows[3]["Status"] = S("ONLY_IN_B")
    /\ Val(side).meta = [row_count |-> 3, only_in_a |-> 1, only_in_b |-> 1,
                         changed |-> 0, same |-> 1]


-----------------------------------------------------------------------------
(* What run_compare does to the parse results of the two files.            *)

\* the Document of a payload as parsed, with INFILTRATION cleared when the
\* infiltration methods of the two files differ
ParsedOnce(payload) ==
    LET raw1 == _parse_inp_iter(Val(_to_text_io(payload1)))
        raw2 == _parse_inp_iter(Val(_to_text_io(payload2)))
        raw == _parse_inp_iter(Val(_to_text_io(payload)))
    IN  IF get_infil_method(raw1) # get_infil_method(raw2)
        THEN ClearInfiltration(raw) ELSE raw

\* C16 -- file-1 data is read-only after parsing: apart from the clearing
\* of INFILTRATION on a method mismatch no step of run_compare adds,
\* removes or alters a row or a field of file 1's Document or an entry of
\* file 1's Geometry, and file 2's are changed by the re-keying and the
\* endpoint rewrites of the reconciliation only; sections1 and sections2 of
\* the output are those rows.
C16_ParsedDataReadOnly ==
    /\ pc \in {"infil", "reconciled", "compared", "forced", "filtered", "done"} =>
          /\ pr1 = ParsedOnce(payload1)
          /\ g1 = _parse_geom_iter(Val(_to_text_io(payload1)))
    /\ pc \in {"reconciled", "compared", "forced", "filtered", "done"} =>
          /\ pr2 = _apply_renames_to_pr2(ParsedOnce(payload2), node_ren, link_ren, sub_ren)
          /\ g2 = _apply_renames_to_geometry(_parse_geom_iter(Val(_to_text_io(payload2))),
                                             node_ren, link_ren, sub_ren)
    /\ pc = "done" =>
          /\ out.sections1 = ParsedOnce(payload1).sections
          /\ out.sections2 = _apply_renames_to_pr2(ParsedOnce(payload2),
                                                   node_ren, link_ren, sub_ren).sections


-----------------------------------------------------------------------------
(* The three rename maps.                                                  *)

\* no new id is the value of two items of a rename map
Injective(ren) ==
    \A i, j \in DOMAIN ren : ren[i][2] = ren[j][2] => i = j

\* C17 -- claim-and-remove: in each of the three rename maps (node, link,
\* subcatchment) every file-2 id is assigned to at most one file-1 id; in
\* the subcatchment pass a candidate chosen for one old id is never chosen
\* again for a later old id.
C17_RenameMapsInjective ==
    /\ Injective(node_ren)
    /\ Injective(link_ren)
    /\ Injective(sub_ren)


\* the geometry of a payload as parsed
GeomOnce(payload) == _parse_geom_iter(Val(_to_text_io(payload)))

\* every pair <<old, new, squared distance>> of node ids unique to their
\* side that have coordinates less than the tolerance apart
NodeCandidates ==
    LET p1 == ParsedOnce(payload1)
        p2 == ParsedOnce(payload2)
        n1 == GeomOnce(payload1).nodes
        n2 == GeomOnce(payload2).nodes
    IN  {<<o, n, Dist2(n1[o], n2[n])>> :
            <<o, n>> \in {q \in ((IdsOf(p1, NodeSecs) \ IdsOf(p2, NodeSecs)) \cap DOMAIN n1)
                                \X ((IdsOf(p2, NodeSecs) \ IdsOf(p1, NodeSecs)) \cap DOMAIN n2) :
                             RLt(Dist2(n1[q[1]], n2[q[2]]), RMul(NodeTolFt, NodeTolFt))}}

\* the maps a greedy matching can end with: the pairs are taken in
\* ascending order of distance, a pair being taken when its old and its
\* new id are both unused (pairs of one distance in any order)
RECURSIVE GreedyMatchings(_, _, _)
GreedyMatchings(pairs, used_old, used_new) ==
    LET free == {p \in pairs : p[1] \notin used_old /\ p[2] \notin used_new}
        nearest == {p \in free : \A q \in free : ~RLt(q[3], p[3])}
    IN  IF free = {} THEN {{}}
        ELSE UNION {{{<<p[1], p[2]>>} \cup m :
                        m \in GreedyMatchings(pairs, used_old \cup {p[1]},
                                              used_new \cup {p[2]})} :
                    p \in nearest}

\* C18 -- the node rename map is the result of collecting every pair of
\* ids unique to their side whose distance is within the 0.5 ft tolerance,
\* sorting all pairs ascending by distance and taking each pair whose old
\* and new ids are both still unused; so no old id is left unmatched while
\* an unclaimed new-side node lies within tolerance of it.
C18_NodeGlobalGreedy ==
    pc \in {"reconciled", "compared", "forced", "filtered", "done"} =>
        /\ {<<node_ren[i][1], node_ren[i][2]>> : i \in DOMAIN node_ren}
               \in GreedyMatchings(NodeCandidates, {}, {})
        /\ \A p \in NodeCandidates :
              p[1] \in RenKeys(node_ren) \/ p[2] \in RenValues(node_ren)


\* the links unique to their side that have at least two geometry points
LinkCandidates(p, q, geo) ==
    {l \in (IdsOf(p, LinkSecs) \ IdsOf(q, LinkSecs)) \cap DOMAIN geo.links :
        Len(geo.links[l]) >= 2}

\* the endpoints of the new link n, mapped back through the node rename
\* map, are the endpoints of the old link o as an unordered pair
EndpointsMatch(o, n) ==
    LET e1 == LinkEndpoints(ParsedOnce(payload1), o)
        e2 == LinkEndpoints(ParsedOnce(payload2), n)
        back(x) == IF x # None /\ Val(x) \in RenValues(node_ren)
                   THEN Some(Inverse(node_ren)[Val(x)]) ELSE x
    IN  {e1[1], e1[2]} = {back(e2[1]), back(e2[2])}

\* the squared distance of the centroids of the old link o and the new link n
CentroidDist2(o, n) ==
    Dist2(Val(_centroid_xy(GeomOnce(payload1).links[o])),
          Val(_centroid_xy(GeomOnce(payload2).links[n])))

\* the new link n is eligible for the old link o: the endpoints match, or
\* the length is within 5% and the centroid within 5 ft
LinkEligible(o, n) ==
    \/ EndpointsMatch(o, n)
    \/ /\ LenClose(PolylineCenti(GeomOnce(payload1).links[o]),
                   PolylineCenti(GeomOnce(payload2).links[n]))
       /\ RLe(CentroidDist2(o, n), RInt(LinkEpsFt * LinkEpsFt))

\* the score of n for o, as <<0 or 1, squared centroid distance>>
LinkScore(o, n) == <<IF EndpointsMatch(o, n) THEN 0 ELSE 1, CentroidDist2(o, n)>>

\* C19 -- for an old link a file-2 candidate (unique to file 2, with two
\* geometry points or more, not yet claimed) is eligible iff its endpoints,
\* mapped back through the node rename map, are the old link's endpoints
\* as an unordered pair, or its length is within 5% of the old length and
\* its centroid within 5 ft; the old link is assigned the eligible
\* candidate of minimum score.  So an assigned candidate is eligible, no
\* candidate left unclaimed has a smaller score, and no old link stays
\* without a rename while an eligible candidate is left unclaimed.
C19_LinkEligibilityAndScore ==
    pc \in {"reconciled", "compared", "forced", "filtered", "done"} =>
        LET olds == LinkCandidates(ParsedOnce(payload1), ParsedOnce(payload2),
                                   GeomOnce(payload1))
            news == LinkCandidates(ParsedOnce(payload2), ParsedOnce(payload1),
                                   GeomOnce(payload2))
            unclaimed == news \ RenValues(link_ren)
        IN  /\ \A i \in DOMAIN link_ren :
                  /\ link_ren[i][1] \in olds /\ link_ren[i][2] \in news
                  /\ LinkEligible(link_ren[i][1], link_ren[i][2])
                  /\ \A m \in unclaimed :
                        LinkEligible(link_ren[i][1], m) =>
                            ~ScoreLt(LinkScore(link_ren[i][1], m),
                                     LinkScore(link_ren[i][1], link_ren[i][2]))
            /\ \A o \in olds \ RenKeys(link_ren) :
                  \A m \in unclaimed : ~LinkEligible(o, m)


\* the subcatchments unique to their side whose polygon has at least three
\* ring points
SubCandidates(p, q, geo) ==
    {x \in (IdsOf(p, <<"SUBCATCHMENTS">>) \ IdsOf(q, <<"SUBCATCHMENTS">>))
               \cap DOMAIN geo.subpolys :
        Len(Flatten(geo.subpolys[x])) >= 3}

\* the squared distance of the centroids of the old polygon o and the new
\* polygon n
SubCentroidDist2(o, n) ==
    Dist2(Val(_centroid_xy(Flatten(GeomOnce(payload1).subpolys[o]))),
          Val(_centroid_xy(Flatten(GeomOnce(payload2).subpolys[n]))))

\* the new polygon n is eligible for the old polygon o: the ratio of the
\* bounding-box areas is within 10% and the centroid within 10 ft
SubEligible(o, n) ==
    /\ _ratio_close(AreaOr1(GeomOnce(payload1).subpolys[o]),
                    AreaOr1(GeomOnce(payload2).subpolys[n]), SubAreaTolPct)
    /\ RLe(SubCentroidDist2(o, n), RInt(SubEpsFt * SubEpsFt))

\* C20 -- every subcatchment id unique to its side whose polygon has at
\* least 3 ring points, a polygon of a single ring included, is a
\* candidate; an old id is renamed to the closest unclaimed new candidate
\* whose bounding-box area ratio is within 10% and whose centroid is within
\* 10 ft.  So no old candidate stays without a rename while an eligible
\* new candidate is left unclaimed, and a subcatchment that only changed
\* its id, with an identical single-ring polygon, is in the rename map.
C20_SubcatchmentCandidates ==
    pc \in {"reconciled", "compared", "forced", "filtered", "done"} =>
        LET olds == SubCandidates(ParsedOnce(payload1), ParsedOnce(payload2),
                                  GeomOnce(payload1))
            news == SubCandidates(ParsedOnce(payload2), ParsedOnce(payload1),
                                  GeomOnce(payload2))
            unclaimed == news \ RenValues(sub_ren)
        IN  /\ \A i \in DOMAIN sub_ren :
                  /\ sub_ren[i][1] \in olds /\ sub_ren[i][2] \in news
                  /\ SubEligible(sub_ren[i][1], sub_ren[i][2])
            /\ \A o \in olds \ RenKeys(sub_ren) :
                  \A n \in unclaimed : ~SubEligible(o, n)


-----------------------------------------------------------------------------
(* The order in which the passes take the old ids.                         *)

\* the ids of the set ids in the order in which the data lines of a text
\* name them first
RECURSIVE FileOrder(_, _, _)
FileOrder(lines, ids, seen) ==
    IF lines = <<>> THEN <<>>
    ELSE LET line == Head(lines)
             named == line.hdr = "" /\ line.cmt = "" /\ line.tok # <<>>
                      /\ line.tok[1] \in ids \ seen
         IN  IF named
             THEN <<line.tok[1]>> \o FileOrder(Tail(lines), ids, seen \cup {line.tok[1]})
             ELSE FileOrder(Tail(lines), ids, seen)

\* the ids of a category unique to the first payload, in its file order
UniqueInFileOrder(payload, other, secs) ==
    FileOrder(Val(_to_text_io(payload)),
              UniqueIds(ParsedOnce(payload), ParsedOnce(other), secs), {})

\* C21 -- the link and the subcatchment pass take the old ids in the order
\* in which they appear in file 1, so of two old ids that compete for one
\* file-2 candidate the one appearing earlier in file 1 claims it; the
\* rename maps are a function of the two input texts alone, the same on
\* every run.
C21_FileOrderDeterminism ==
    pc \in {"reconciled", "compared", "forced", "filtered", "done"} =>
        /\ link_ren = _build_link_renames(
                          ParsedOnce(payload1), ParsedOnce(payload2),
                          GeomOnce(payload1), GeomOnce(payload2), node_ren,
                          UniqueInFileOrder(payload1, payload2, LinkSecs),
                          UniqueInFileOrder(payload2, payload1, LinkSecs))
        /\ sub_ren = _build_sub_renames(
                          ParsedOnce(payload1), ParsedOnce(payload2),
                          GeomOnce(payload1), GeomOnce(payload2),
                          UniqueInFileOrder(payload1, payload2, <<"SUBCATCHMENTS">>),
                          UniqueInFileOrder(payload2, payload1, <<"SUBCATCHMENTS">>))


-----------------------------------------------------------------------------
(* The apply phase of the reconciliation.                                  *)

\* the rename old -> new is applied to the sections secs of file 2's
\* Document, to its tag map and to the Geometry map geo_map, of which
\* raw_map is the state before the reconciliation
RenameApplied(old, new, secs, geo_map, raw_map) ==
    /\ \E i \in DOMAIN secs : old \in DOMAIN Get(pr2.sections, secs[i], EmptyDict)
    /\ \A i \in DOMAIN secs : new \notin DOMAIN Get(pr2.sections, secs[i], EmptyDict)
    /\ new \notin DOMAIN pr2.tags
    /\ new \in DOMAIN ParsedOnce(payload2).tags => old \in DOMAIN pr2.tags
    /\ new \notin DOMAIN geo_map
    /\ new \in DOMAIN raw_map => old \in DOMAIN geo_map

\* C22 -- after the reconciliation, for every rename old -> new of any
\* category, file 2's Document holds the row of the element under old and
\* no row under new in its section, file 2's tag map and Geometry map are
\* keyed by old and not by new, and no conduit-like row of file 2 has the
\* new id of a renamed node as its from-node or to-node.
C22_ApplyPhaseComplete ==
    pc \in {"reconciled", "compared", "forced", "filtered", "done"} =>
        /\ \A i \in DOMAIN node_ren :
              RenameApplied(node_ren[i][1], node_ren[i][2], NodeSecs,
                            g2.nodes, GeomOnce(payload2).nodes)
        /\ \A i \in DOMAIN link_ren :
              RenameApplied(link_ren[i][1], link_ren[i][2], LinkSecs,
                            g2.links, GeomOnce(payload2).links)
        /\ \A i \in DOMAIN sub_ren :
              RenameApplied(sub_ren[i][1], sub_ren[i][2], <<"SUBCATCHMENTS">>,
                            g2.subpolys, GeomOnce(payload2).subpolys)
        /\ \A i \in DOMAIN LinkSecs :
              \A lid \in DOMAIN Get(pr2.sections, LinkSecs[i], EmptyDict) :
                 LET vals == pr2.sections[LinkSecs[i]][lid]
                 IN  \A k \in 1..2 :
                        k <= Len(vals) => vals[k].s \notin RenValues(node_ren)


-----------------------------------------------------------------------------
(* The Geometry of a text.                                                 *)

\* line i of a text is a data line of one of the sections secs that names
\* id and has three tokens or more
NamesIn(lines, i, secs, id) ==
    /\ lines[i].hdr = "" /\ lines[i].cmt = "" /\ Len(lines[i].tok) >= 3
    /\ lines[i].tok[1] = id
    /\ SectionAt(lines, i) \in secs

\* the points that the lines of section sec give for id, in file order,
\* from line i on
RECURSIVE PointsOf(_, _, _, _)
PointsOf(lines, i, sec, id) ==
    IF i > Len(lines) THEN <<>>
    ELSE (IF NamesIn(lines, i, {sec}, id)
          THEN <<<<Val(StrToFloat(lines[i].tok[2])), Val(StrToFloat(lines[i].tok[3]))>>>>
          ELSE <<>>)
         \o PointsOf(lines, i + 1, sec, id)

\* the from-node and the to-node of the link lid: those of the last line
\* of a link section that names it
EndNodes(lines, lid) ==
    LET rows == {i \in DOMAIN lines : NamesIn(lines, i, Range(LinkSecs), lid)}
        last == CHOOSE i \in rows : \A j \in rows : j <= i
    IN  <<lines[last].tok[2], lines[last].tok[3]>>

\* every polyline of geo.links has both endpoints resolved and is the
\* start coordinate, the vertices in file order and the end coordinate
LinksAsStated(lines, geo) ==
    \A lid \in DOMAIN geo.links :
        LET e == EndNodes(lines, lid)
        IN  /\ e[1] \in DOMAIN geo.nodes
            /\ e[2] \in DOMAIN geo.nodes
            /\ geo.links[lid] = <<geo.nodes[e[1]]>> \o PointsOf(lines, 1, "VERTICES", lid)
                                    \o <<geo.nodes[e[2]]>>

\* C23 -- a link polyline is in Geometry.links only if both endpoint node
\* ids of the link resolve to coordinates, and then it is the start node
\* coordinate, the vertices of the link in file order and the end node
\* coordinate; a link with an unresolved endpoint is never materialized,
\* whatever its number of vertices.
C23_LinkAssembly ==
    pc \in {"geom", "infil"} =>
        /\ LinksAsStated(Val(_to_text_io(payload1)), g1)
        /\ LinksAsStated(Val(_to_text_io(payload2)), g2)


\* a ring is closed: three points or more, the first equal to the last
Closed(ring) == Len(ring) >= 3 /\ ring[1] = ring[Len(ring)]

\* the ids that the POLYGONS lines of a text give points for
PolygonIds(lines) ==
    {lines[i].tok[1] : i \in {j \in DOMAIN lines :
        lines[j].hdr = "" /\ lines[j].cmt = "" /\ Len(lines[j].tok) >= 3
        /\ SectionAt(lines, j) = "POLYGONS"}}

\* rings is the split of points: the rings in order make up the points, a
\* ring ends exactly where it is closed and another point follows
SplitOf(rings, points) ==
    /\ Flatten(rings) = points
    /\ \A n \in DOMAIN rings :
          /\ rings[n] # <<>>
          /\ n < Len(rings) => Closed(rings[n])
          /\ \A k \in 3..(Len(rings[n]) - 1) : ~Closed(SubSeq(rings[n], 1, k))

RingsAsStated(lines, geo) ==
    /\ DOMAIN geo.subpolys = PolygonIds(lines)
    /\ \A id \in DOMAIN geo.subpolys :
          SplitOf(geo.subpolys[id], PointsOf(lines, 1, "POLYGONS", id))

\* C24 -- for every polygon id the rings of Geometry.polygons concatenated
\* in order are the points of the id in file order, and a new ring is
\* started exactly when a point arrives while the current ring has three
\* points or more and its first point equals its last; every ring but the
\* last is closed and no ring is empty.
C24_RingSplitting ==
    pc \in {"geom", "infil"} =>
        /\ RingsAsStated(Val(_to_text_io(payload1)), g1)
        /\ RingsAsStated(Val(_to_text_io(payload2)), g2)

\* a polygon of two closed rings and a last point has been split in three,
\* next to a polygon of a single closed ring
C24_Witness ==
    /\ pc = "geom"
    /\ DOMAIN g1.subpolys = {"S1", "S4"}
    /\ Len(g1.subpolys["S1"]) = 3
    /\ Len(g1.subpolys["S1"][1]) = 4
    /\ Len(g1.subpolys["S1"][2]) = 3
    /\ Len(g1.subpolys["S1"][3]) = 1
    /\ Len(g1.subpolys["S4"]) = 1
    /\ Closed(g1.subpolys["S4"][1])


\* the value that the Document holds for id in section sec, decoded
Decoded(pr, sec, id) == pr.sections[sec][id][1].json

\* the decoded value enc is a list of rings of the ring structure of
\* rings: as many rings, each of as many points, of the same coordinates
SameRings(enc, rings) ==
    /\ Len(enc) = Len(rings)
    /\ \A n \in DOMAIN rings :
          /\ Len(enc[n]) = Len(rings[n])
          /\ \A k \in DOMAIN rings[n] :
                <<Val(StrToFloat(enc[n][k][1])), Val(StrToFloat(enc[n][k][2]))>>
                    = rings[n][k]

\* the decoded value enc is the flat list of the points of id in file order
FlatPoints(enc, points) ==
    /\ Len(enc) = Len(points)
    /\ \A k \in DOMAIN points :
          <<Val(StrToFloat(enc[k][1])), Val(StrToFloat(enc[k][2]))>> = points[k]

PolygonsEncodedAsRings(lines, pr, geo) ==
    /\ \A id \in DOMAIN geo.subpolys :
          /\ id \in DOMAIN Get(pr.sections, "POLYGONS", EmptyDict)
          /\ SameRings(Decoded(pr, "POLYGONS", id), geo.subpolys[id])
    /\ \A id \in DOMAIN Get(pr.sections, "VERTICES", EmptyDict) :
          FlatPoints(Decoded(pr, "VERTICES", id), PointsOf(lines, 1, "VERTICES", id))

\* C25 -- the text parser applies the ring-split rule of the geometry
\* extractor: the value encoded for a POLYGONS id in the Document is a list
\* of rings that decodes to the ring structure of Geometry.polygons for
\* that id, while VERTICES is stored as one flat ordered point list.
C25_PolygonsEncodedAsRings ==
    pc \in {"geom", "infil"} =>
        /\ PolygonsEncodedAsRings(Val(_to_text_io(payload1)), pr1, g1)
        /\ PolygonsEncodedAsRings(Val(_to_text_io(payload2)), pr2, g2)

-----------------------------------------------------------------------------
(* SpatialIndex on its own: add calls followed by one query.               *)

\* the number of add calls before the query
MaxAdds == 2

\* coordinates on, next to and far from the cell boundaries, and below zero
IndexXs == {RInt(-501), RInt(-500), Rat(-1, 2), RInt(0), RInt(499),
            RInt(500), RInt(1000)}
IndexYs == {RInt(-1), RInt(0), RInt(500)}
IndexIds == {"A", "B"}

\* index = SpatialIndex(cell_size_ft=500.0)
IndexInit ==
    /\ progress_callback = None
    /\ payload1 = TextPayload("str", <<>>)
    /\ payload2 = TextPayload("str", <<>>)
    /\ pc = "index"
    /\ FreshRun
    /\ row_old = <<>> /\ row_new = <<>>
    /\ row_slopes = <<>> /\ row_diffs = EmptyDict
    /\ rpt_name = "" /\ rpt_a = <<>> /\ rpt_b = <<>>
    /\ sec_a = <<>> /\ sec_b = <<>> /\ side = <<>>
    /\ NoIndex

\* index.add(id, x, y)
Add ==
    /\ pc = "index"
    /\ Len(idx_added) < MaxAdds
    /\ \E id \in IndexIds, x \in IndexXs, y \in IndexYs :
          /\ idx_grid' = IndexAdd(idx_grid, NodeCellFt, id, x, y)
          /\ idx_added' = Append(idx_added, <<id, x, y>>)
    /\ UNCHANGED <<pc, idx_query, idx_result>>
    /\ UNCHANGED <<rowvars, rptvars>>
    /\ UNCHANGED <<progress_callback, progress_log, payload1, payload2, pr1,
                   pr2, g1, g2, warnings, tolerances, node_ren, link_ren,
                   sub_ren, renames, diffs, headers, out, err>>

\* index.query_candidates(x, y)
Query ==
    /\ pc = "index"
    /\ \E x \in IndexXs, y \in IndexYs :
          /\ idx_query' = Some(<<x, y>>)
          /\ idx_result' = query_candidates(idx_grid, NodeCellFt, x, y)
    /\ pc' = "queried"
    /\ UNCHANGED <<idx_grid, idx_added>>
    /\ UNCHANGED <<rowvars, rptvars>>
    /\ UNCHANGED <<progress_callback, progress_log, payload1, payload2, pr1,
                   pr2, g1, g2, warnings, tolerances, node_ren, link_ren,
                   sub_ren, renames, diffs, headers, out, err>>

IndexNext == Add \/ Query

IndexSpec == IndexInit /\ [][IndexNext]_vars

\* floor(v / cell): the integer k with k * cell <= v < (k + 1) * cell
FloorCell(v, cell) ==
    CHOOSE k \in -4..4 : /\ RLe(RInt(k * cell), v)
                         /\ RLt(v, RInt((k + 1) * cell))

\* the cells of two points differ by at most 1 on each axis
NeighbourCells(x1, y1, x2, y2, cell) ==
    /\ Abs(FloorCell(x1, cell) - FloorCell(x2, cell)) <= 1
    /\ Abs(FloorCell(y1, cell) - FloorCell(y2, cell)) <= 1

\* how often e occurs in the sequence s
Occurrences(s, e) == Cardinality({k \in DOMAIN s : s[k] = e})

\* C26: after any sequence of add calls, query_candidates(x, y) returns
\* exactly the added entries whose cell (floor(x/cell), floor(y/cell))
\* differs from the cell of the query by at most 1 on each axis, each once
\* per add; so every added point within one cell size of the query point on
\* both axes is returned, below zero and on cell boundaries too
C26_QueryReturnsNeighbourhood ==
    pc = "queried" =>
        LET q == Val(idx_query)
            near(e) == NeighbourCells(e[2], e[3], q[1], q[2], NodeCellFt)
        IN  /\ \A k \in DOMAIN idx_result :
                  \E j \in DOMAIN idx_added : idx_added[j] = idx_result[k]
            /\ \A j \in DOMAIN idx_added :
                  Occurrences(idx_result, idx_added[j])
                      = IF near(idx_added[j])
                        THEN Occurrences(idx_added, idx_added[j]) ELSE 0
            /\ \A j \in DOMAIN idx_added :
                  (/\ RLe(RAbs(RSub(idx_added[j][2], q[1])), RInt(NodeCellFt))
                   /\ RLe(RAbs(RSub(idx_added[j][3], q[2])), RInt(NodeCellFt)))
                      => Occurrences(idx_result, idx_added[j]) >= 1

\* an entry on the cell boundary below zero was added twice, and the query
\* at the origin, one cell further, returned it twice
C26_Witness ==
    /\ pc = "queried"
    /\ Len(idx_added) = 2
    /\ idx_added[1] = idx_added[2]
    /\ idx_added[1][2] = RInt(-500)
    /\ Val(idx_query) = <<RInt(0), RInt(0)>>
    /\ idx_result = <<idx_added[1], idx_added[1]>>

-----------------------------------------------------------------------------
(* Properties of the progress callback.                                    *)

\* the milestones that report a finished stage or a stage in progress; the
\* log holds three more calls, which announce the start of parsing ("5"),
\* of the reconciliation ("25") and of the comparison ("40")
StageMilestones == {"10", "15", "20", "35", "90", "95"}

IsSectionCall(call) == \E k \in DOMAIN SortedSections : SortedSections[k] = call.msg

\* the calls of the log for those milestones and for the sections
RECURSIVE StageCalls(_)
StageCalls(log) ==
    IF log = <<>> THEN <<>>
    ELSE (IF Head(log).msg \in StageMilestones \/ IsSectionCall(Head(log))
          THEN <<Head(log).msg>> ELSE <<>>) \o StageCalls(Tail(log))

\* the place of a section name among the sorted names
SectionRank(sec) == CHOOSE k \in DOMAIN SortedSections : SortedSections[k] = sec

\* file 1 parsed, file 2 parsed, geometry parsed, reconciliation done, the
\* sections of either file in ascending order, filtering, output assembly
InStatedOrder(calls) ==
    LET secs == (DOMAIN pr1.sections) \cup (DOMAIN pr2.sections)
        n == Cardinality(secs)
    IN  /\ Len(calls) = 4 + n + 2
        /\ SubSeq(calls, 1, 4) = <<"10", "15", "20", "35">>
        /\ {calls[k] : k \in 5..(4 + n)} = secs
        /\ \A k \in 5..(3 + n) : SectionRank(calls[k]) < SectionRank(calls[k + 1])
        /\ SubSeq(calls, 5 + n, 6 + n) = <<"90", "95">>

\* C28: with a callback, run_compare reports in this order: file 1 parsed,
\* file 2 parsed, geometry parsed, reconciliation done, one call per section
\* of the diff in sorted order, filtering, output assembly; a run that
\* returns has reported each of them exactly once, a run under way or ended
\* by an exception has reported a beginning of that sequence, so each
\* milestone comes only after its predecessor; the percentage of a call is
\* never below that of the call before it; without a callback nothing is
\* reported
C28_ProgressMilestones ==
    /\ IsNone(progress_callback) => progress_log = <<>>
    /\ \A k \in 1..(Len(progress_log) - 1) :
          RLe(progress_log[k].pct, progress_log[k + 1].pct)
    /\ \A j, k \in DOMAIN progress_log :
          progress_log[j].msg = progress_log[k].msg => j = k
    /\ (~IsNone(progress_callback) /\ pc = "done") =>
          InStatedOrder(StageCalls(progress_log))
    /\ LET calls == StageCalls(progress_log)
       IN  \A k \in DOMAIN calls :
              \/ k <= 4 /\ calls[k] = <<"10", "15", "20", "35">>[k]
              \/ /\ k > 4
                 /\ calls[k - 1] \in {"35"} \cup (DOMAIN pr1.sections)
                                         \cup (DOMAIN pr2.sections) \cup {"90"}
                 /\ calls[k] = "95" => calls[k - 1] = "90"
                 /\ calls[k] = "90" =>
                       {c \in (DOMAIN pr1.sections) \cup (DOMAIN pr2.sections) :
                           \E j \in 1..(k - 1) : calls[j] = c}
                       = (DOMAIN pr1.sections) \cup (DOMAIN pr2.sections)
                 /\ (calls[k] \notin {"90", "95"} /\ calls[k - 1] # "35") =>
                       SectionRank(calls[k - 1]) < SectionRank(calls[k])

\* a run with a callback has returned after three section calls, the second
\* of them at 40 + 1/3 * 50 percent
C28_Witness ==
    /\ pc = "done"
    /\ ~IsNone(progress_callback)
    /\ Cardinality((DOMAIN pr1.sections) \cup (DOMAIN pr2.sections)) = 3
    /\ \E k \in DOMAIN progress_log :
          /\ IsSectionCall(progress_log[k])
          /\ progress_log[k].pct = Rat(170, 3)

-----------------------------------------------------------------------------
(* The scan of parse_table_section over arbitrary lines.                   *)

\* the largest number of lines of a scanned section
MaxScanLines == 5

\* a divider, a blank line, a star line, a row of the expected 8 tokens, a
\* row of 6 tokens and a line of one token
ScanLines ==
    {Dash, [kind |-> "blank", tok |-> <<>>], [kind |-> "stars", tok |-> <<"***">>],
     Text(<<"J1", "JUNCTION", "1.0", "2.0", "3.0", "0", "11:55", "2.5">>),
     Text(<<"J2", "JUNCTION", "1.0", "2.0", "3.0", "0">>),
     Text(<<"J3">>)}

ScanInit ==
    /\ progress_callback = None
    /\ payload1 = TextPayload("str", <<>>)
    /\ payload2 = TextPayload("str", <<>>)
    /\ pc = "rpt"
    /\ FreshRun
    /\ row_old = <<>> /\ row_new = <<>>
    /\ row_slopes = <<>> /\ row_diffs = EmptyDict
    /\ rpt_name = "Node Depth Summary"
    /\ rpt_a \in {Some(lines) :
                     lines \in UNION {[1..n -> ScanLines] : n \in 0..MaxScanLines}}
    /\ rpt_b = None
    /\ sec_a = None /\ sec_b = None /\ side = None
    /\ NoIndex

ScanSpec == ScanInit /\ [][RptNext]_vars

\* the first line from from on whose kind is one of kinds, Len + 1 if none
FirstOfKind(lines, from, kinds) ==
    IF \E k \in from..Len(lines) : lines[k].kind \in kinds
    THEN CHOOSE k \in from..Len(lines) :
            /\ lines[k].kind \in kinds
            /\ \A m \in from..(k - 1) : lines[m].kind \notin kinds
    ELSE Len(lines) + 1

\* the second divider, which ends the header
HeaderEnd(lines) == FirstOfKind(lines, FirstOfKind(lines, 1, {"dash"}) + 1, {"dash"})

\* the lines between the header and the first line of one of the kinds
LinesUntil(lines, kinds) ==
    LET j == HeaderEnd(lines)
    IN  IF j > Len(lines) THEN <<>>
        ELSE SubSeq(lines, j + 1, FirstOfKind(lines, j + 1, kinds) - 1)

\* the section scanned from row lines: one row per line, in order, keyed by
\* the first token, and one diagnostic per line whose token count is not
\* the expected one
ScannedFrom(ps, row_lines) ==
    LET exp == expected_token_count(ps.schema)
        odd == SelectSeq(row_lines, LAMBDA l : Len(l.tok) # exp)
    IN  /\ ps.row_order = [k \in DOMAIN row_lines |-> row_lines[k].tok[1]]
        /\ DOMAIN ps.rows = {row_lines[k].tok[1] : k \in DOMAIN row_lines}
        /\ \A k \in DOMAIN row_lines :
              (\A m \in (k + 1)..Len(row_lines) : row_lines[m].tok[1] # row_lines[k].tok[1])
                  => ps.rows[row_lines[k].tok[1]]
                         = parse_row_by_schema(row_lines[k].tok, ps.columns, ps.schema)
        /\ ps.meta.unparsed_rows
              = [k \in DOMAIN odd |-> [tokens |-> odd[k].tok, expected_tokens |-> exp,
                                       actual_tokens |-> Len(odd[k].tok)]]

\* C27 as stated: the rows are read from the line after the second divider
\* up to the first blank line, star line or further divider; every line read
\* is mapped to a row, and recorded as a diagnostic too when its token count
\* is not the expected one
C27_ScanAsStated ==
    (pc = "rpt_parsed" /\ ~IsNone(rpt_a)) =>
        ScannedFrom(Val(sec_a), LinesUntil(Val(rpt_a), {"blank", "stars", "dash"}))

\* C27 amended: the rows are read from the line after the second divider up
\* to the first blank line or star line; a further divider is stepped over
\* and the rows after it are read as well; a line of fewer than two tokens
\* gives neither a row nor a diagnostic; every other line read is mapped to
\* a row, in order, and recorded as a diagnostic too when its token count
\* is not the expected one; no line after the blank or star line gives a row
C27_ScanAmended ==
    (pc = "rpt_parsed" /\ ~IsNone(rpt_a)) =>
        ScannedFrom(Val(sec_a),
                    SelectSeq(LinesUntil(Val(rpt_a), {"blank", "stars"}),
                              LAMBDA l : l.kind = "text" /\ Len(l.tok) >= 2))

\* after the header a full row, a divider, a short row and a blank line were
\* scanned: both rows are there, the short one among the diagnostics
C27_Witness ==
    /\ pc = "rpt_parsed"
    /\ rpt_a = Some(<<Dash, Dash,
                      Text(<<"J1", "JUNCTION", "1.0", "2.0", "3.0", "0", "11:55", "2.5">>),
                      Dash,
                      Text(<<"J2", "JUNCTION", "1.0", "2.0", "3.0", "0">>)>>)
    /\ Val(sec_a).row_order = <<"J1", "J2">>
    /\ Len(Val(sec_a).meta.unparsed_rows) = 1

-----------------------------------------------------------------------------
(* Properties of the HYDROGRAPHS section.                                  *)

\* the rain gage that the 2-token lines of HYDROGRAPHS map the hydrograph
\* to (the last such line counts), "" when no line maps it
GageOf(lines, hydrograph) ==
    LET maps == {i \in DataLines(lines, "HYDROGRAPHS") :
                    Len(lines[i].tok) = 2 /\ lines[i].tok[1] = hydrograph}
    IN  IF maps = {} THEN ""
        ELSE lines[CHOOSE i \in maps : \A j \in maps : j <= i].tok[2]

\* every parameter line of the text has its row: the 6 value tokens of the
\* last line with that key, followed by one gage field
GageBackFilled(lines, pr) ==
    \A i \in DataLines(lines, "HYDROGRAPHS") :
        Len(lines[i].tok) >= 9 =>
            LET tok == lines[i].tok
                key == tok[1] \o " " \o tok[2] \o " " \o tok[3]
                same == {j \in DataLines(lines, "HYDROGRAPHS") :
                            Len(lines[j].tok) >= 9
                            /\ SubSeq(lines[j].tok, 1, 3) = SubSeq(tok, 1, 3)}
                last == lines[CHOOSE j \in same : \A m \in same : m <= j].tok
            IN  /\ "HYDROGRAPHS" \in DOMAIN pr.sections
                /\ key \in DOMAIN pr.sections["HYDROGRAPHS"]
                /\ pr.sections["HYDROGRAPHS"][key]
                      = [k \in 1..7 |-> IF k <= 6 THEN S(last[k + 3])
                                        ELSE S(GageOf(lines, tok[1]))]

\* C29: after parsing, every HYDROGRAPHS parameter row (keyed "hydrograph
\* month response", from a line of 9 tokens or more) is its 6 value tokens
\* followed by exactly one gage field: the rain gage that a 2-token line of
\* the section maps to its hydrograph, wherever that line stands, and the
\* empty string when the section has no mapping for it
C29_HydrographGageBackFill ==
    pc = "parsed" =>
        /\ GageBackFilled(Val(_to_text_io(payload1)), pr1)
        /\ GageBackFilled(Val(_to_text_io(payload2)), pr2)

-----------------------------------------------------------------------------
(* Properties of the derived deltas.                                       *)

\* C30: the deltas reported for a changed CONDUITS row (Length, Roughness,
\* InOffset, OutOffset and Slope) are those of the old and new rows as they
\* were parsed, before the Slope column is appended to them for display;
\* this holds for rows of fewer than six value fields too
C30_DeltasFromParsedFields ==
    [][(pc = "filtered" /\ pc' = "done" /\ "CONDUITS" \in DOMAIN diffs) =>
          \A rid \in DOMAIN diffs["CONDUITS"].changed :
              out'.diffs["CONDUITS"].changed[rid].diff_values
                  = _calculate_field_diffs(diffs["CONDUITS"].changed[rid][1],
                                           diffs["CONDUITS"].changed[rid][2],
                                           headers'["CONDUITS"], "CONDUITS")]_vars

====
